---- MODULE Spec2Model ----
(***************************************************************************)
(* Houdini-Toolbox: the identifier-keyed parallel attribute copy           *)
(* (SOP_IdAttribCopy) and the primitive-group centroid engine              *)
(* (SOP_PrimGroupCentroid).                                                 *)
(*                                                                         *)
(* Geometry is modelled the way the GA library stores it: elements live at *)
(* offsets, an offset may be a hole (a deleted element), and the index of  *)
(* an element is its rank among the live offsets.  Attribute values are    *)
(* opaque tokens <<origin, attribute, offset>>, so a copy can be told from *)
(* the value it replaced.  UT_Vector3 arithmetic is component-wise, so one *)
(* component is modelled, with exact arithmetic: a quotient is kept as the *)
(* pair [num, den].                                                        *)
(***************************************************************************)
EXTENDS Integers, Sequences, FiniteSets, TLC

(***************************************************************************)
(* Bounds of the model.                                                    *)
(***************************************************************************)
\* Offsets of destination point storage.
NumOff == 4
\* Offsets per page (GA_PAGE_SIZE, scaled down); a GA_SplittableRange splits
\* on page boundaries.
PageSize == 2
\* Bits per storage word of a UT_BitArray (scaled down).
WordBits == 2
\* Largest number of points of the second input of SOP_IdAttribCopy.
MaxSrc == 2
\* Identifier values are 0..MaxId.
MaxId == 1

\* Points of the input of SOP_PrimGroupCentroid.
MaxPt == 3
\* Largest number of primitives of that input.
MaxPrim == 3
\* Primitive areas are 0..MaxArea.
MaxArea == 2
\* Values of the integer attribute 'class' are 0..MaxKey.
MaxKey == 1
MaxBound == 2
\* SOP_PrimGroupCentroid: the cooks of one node that are followed.
MaxCooks == 2

\* enum MODES {MODE_GROUP, MODE_NAME, MODE_CLASS}
MODE_GROUP == 0
MODE_NAME == 1
MODE_CLASS == 2

Off == 0 .. (NumOff - 1)
Pages == 0 .. ((NumOff - 1) \div PageSize)
Ids == 0 .. MaxId
\* The hole of the destination point storage: an offset, or NumOff for none.
Holes == 0 .. NumOff

VARIABLES
    \* ---- SOP_IdAttribCopy ----
    parm,       \* parameter values: attributes, copyp, creategroup
    in0,        \* first input: [hole, id, attrs]
    src,        \* second input: [id, attrs]; point s lives at offset s - 1
    cuts,       \* the page boundaries at which the scheduler splits the range
    pc,         \* "idle", "copying" (inside UTparallelFor), "done", or
                \* "exit" after an early return
    gdp,        \* output detail: [hole, id, attrs, val]
    hmap,       \* GA_AttributeRefMap: the names of the mapped attributes
    id_map,     \* IdOffsetMap: id -> offset of a point of the second input
    matches,    \* UT_BitArray: point index -> bit
    group,      \* membership of the matched point group (offsets)
    task,       \* per shard: [cur, phase, word]
    writes,     \* log of destination attribute writes: <<shard, offset>>
    err,        \* node errors raised by the cook
    \* ---- SOP_PrimGroupCentroid ----
    cparm,      \* parameter values: mode, method, store, group, attributes
    geo,        \* the input geometry
    cpc,        \* per node (cur: the present one, v3: version 3.0): "idle",
                \* "done", or "exit" after an early return
    cdata,      \* the cook's range_array, string_values and int_values
    out,        \* output detail of the cook: [attrs, pts, strIdent, intIdent]
    outV3,      \* output detail of the cook of version 3.0 of the node
    cerr,       \* per node: the errors raised by the cook
    bparm,      \* parameter values of the binding: behavior, bind
    bpts,       \* the second input, the points to bind to: [connected,
                \* attrs, keyType, key]; point i lies at 10 * i
    bgdp,       \* the detail that is bound: [prims, pts, attrs, pos, xf,
                \* pval, adhoc, hmap]
    mats,       \* the transforms built by the cook, in order
    recook,     \* the cooks of the node so far: [n, was], the number of
                \* cooks and the input and output of the cook before
    \* ---- SOP_IdBlast ----
    blast,      \* [ids, hasId, in, pc, gdp, id_map, group, err]: the 'ids'
                \* parameter as tokens <<lo, hi>>, the input (has it an 'id'
                \* attribute, the ids of its points: point s at offset
                \* s - 1), and the cook
    \* ---- OP_Node ----
    locks       \* per node: [locked, unlocked], the calls of lockInputs
                \* that succeeded and the calls of unlockInputs

copyVars == <<parm, in0, src, cuts, pc, gdp, hmap, id_map, matches, group,
              task, writes, err>>

centVars == <<cparm, geo, cpc, cdata, out, outV3, cerr, bparm, bpts, bgdp,
              mats, recook>>

vars == <<copyVars, centVars, blast, locks>>

(***************************************************************************)
(* Geometry helpers (GA_IndexMap).                                         *)
(***************************************************************************)
\* The live offsets of a detail whose hole is h.
Live(h) == { o \in Off : o # h }

\* GA_Detail::pointIndex: rank of the offset among the live offsets.
pointIndex(h, o) == Cardinality({ x \in Live(h) : x < o })

\* GA_Detail::pointOffset: the live offset of rank i.
pointOffset(h, i) == CHOOSE o \in Live(h) : pointIndex(h, o) = i

\* GA_Detail::getNumPoints.
getNumPoints(h) == Cardinality(Live(h))

\* Value tokens.
InVal(a, o) == <<"in0", a, o>>
SrcVal(a, s) == <<"src", a, s>>
DefVal(a) == <<"def", a, 0>>

\* UT_String::matchPattern over the tokens of a pattern: "*" matches every
\* name, any other token matches itself.
matchPattern(name, tokens) ==
    \E i \in 1 .. Len(tokens) : tokens[i] = "*" \/ tokens[i] = name

\* Ascending sequence of the elements of a finite set of integers.
RECURSIVE SortedSeq(_)
SortedSeq(S) ==
    IF S = {} THEN <<>>
    ELSE LET m == CHOOSE x \in S : \A y \in S : x <= y
         IN <<m>> \o SortedSeq(S \ {m})

(***************************************************************************)
(* SOP_IdAttribCopy: the sequential part of cookMySop.                     *)
(***************************************************************************)
EmptyMap == [k \in {} |-> 0]

\* The mutant of StoreId: an insert that keeps the entry already present.
StoreIdKeepFirst(m, id, pt) ==
    IF id \in DOMAIN m THEN m ELSE [k \in DOMAIN m \cup {id} |->
                                       IF k = id THEN pt ELSE m[k]]

\* id_map[id] = pt
StoreId(m, id, pt) ==
    [k \in DOMAIN m \cup {id} |-> IF k = id THEN pt ELSE m[k]]

\* The scan of the points of the second input: the first n points of ids, in
\* offset order, point s at offset s - 1.
RECURSIVE build_index(_, _)
build_index(ids, n) ==
    IF n = 0 THEN EmptyMap
    ELSE StoreId(build_index(ids, n - 1), ids[n], n - 1)

\* The attributes the loop over the point attributes of the second input
\* creates on the output and appends to the reference map.
CreatedAttribs(tokens, srcAttrs, dstAttrs) ==
    { a \in srcAttrs : /\ a # "id"
                       /\ matchPattern(a, tokens)
                       /\ a \notin dstAttrs }

\* The mutant of CopyRefMap: P is appended whenever the pattern matches it.
CopyRefMapAlwaysP(tokens, copyp, srcAttrs, dstAttrs) ==
    CreatedAttribs(tokens, srcAttrs, dstAttrs)
        \cup (IF matchPattern("P", tokens) THEN {"P"} ELSE {})

\* The reference map once the loop and the 'Accept P' step are through.
CopyRefMap(tokens, copyp, srcAttrs, dstAttrs) ==
    CreatedAttribs(tokens, srcAttrs, dstAttrs)
        \cup (IF copyp /\ matchPattern("P", tokens) THEN {"P"} ELSE {})

\* duplicateSource(0, context): the output becomes a copy of the first input.
duplicateSource(g) ==
    [hole |-> g.hole, id |-> g.id, attrs |-> g.attrs,
     val |-> [a \in g.attrs \ {"id"} |-> [o \in Off |-> InVal(a, o)]]]

\* gdp->addPointAttrib(source_attr) for every created attribute.
addPointAttribs(g, created) ==
    [g EXCEPT !.attrs = g.attrs \cup created,
              !.val = [a \in (g.attrs \cup created) \ {"id"} |->
                          IF a \in created THEN [o \in Off |-> DefVal(a)]
                          ELSE g.val[a]]]

(***************************************************************************)
(* The range handed to UTparallelFor and the way it is split.              *)
(***************************************************************************)
\* The first pages of the shards.
Heads(c) == {0} \cup c

\* The mutant of TaskPages: a shard that runs on to the last page.
TaskPagesToEnd(c, t) == { p \in Pages : p >= t }

\* The pages of the shard whose first page is t.
TaskPages(c, t) ==
    { p \in Pages : p >= t /\ \A q \in c : ~(t < q /\ q <= p) }

\* The offsets the shard visits, in order: the live offsets of its pages.
ShardOffsets(c, t, h) ==
    SortedSeq({ o \in Live(h) : (o \div PageSize) \in TaskPages(c, t) })

\* The mutant of AllShardsComplete: the caller goes on once one shard is done.
SomeShardComplete(tk) == \E t \in Pages : tk[t].phase = "done"

\* The implicit join of UTparallelFor.
AllShardsComplete(tk) == \A t \in Pages : tk[t].phase = "done"

(***************************************************************************)
(* AttributeIdCopier::operator().                                          *)
(***************************************************************************)
\* The mutant of find: operator[], which adds a default entry on a miss.
findOrInsert(m, id) ==
    [map |-> IF id \in DOMAIN m THEN m ELSE StoreId(m, id, 0), hit |-> TRUE]

\* myIdMap->find(id): the map is left as it is.
find(m, id) == [map |-> m, hit |-> id \in DOMAIN m]

\* The mutant of copyValue: the source is read at the destination offset.
copyValueSameOffset(val, map, pt, srcOff) ==
    [a \in DOMAIN val |->
        IF a \in map THEN [val[a] EXCEPT ![pt] = SrcVal(a, pt)] ELSE val[a]]

\* myAttribMap->copyValue(GA_ATTRIB_POINT, pt, GA_ATTRIB_POINT, srcOff)
copyValue(val, map, pt, srcOff) ==
    [a \in DOMAIN val |->
        IF a \in map THEN [val[a] EXCEPT ![pt] = SrcVal(a, srcOff)] ELSE val[a]]

\* The storage word of a bit and the bits of a word that are set.
WordOf(i) == i \div WordBits
WordBitsSet(bits, w) == { i \in DOMAIN bits : WordOf(i) = w /\ bits[i] }

\* The shard moves on to its next offset.
Advance(tk, t, n) ==
    [tk EXCEPT ![t] = [cur |-> tk[t].cur + 1,
                       phase |-> IF tk[t].cur + 1 > n THEN "done" ELSE "scan",
                       word |-> {}]]

(***************************************************************************)
(* SOP_PrimGroupCentroid: geometry, parameters and output.                 *)
(***************************************************************************)
Pt == 0 .. (MaxPt - 1)
Areas == 0 .. MaxArea
Keys == 0 .. MaxKey
Names == {"", "a", "b"}

\* An input without primitives.
NoGeo ==
    [prims |-> <<>>, nameType |-> "none", name |-> <<>>,
     classType |-> "none", class |-> <<>>, groups |-> <<>>, pattrs |-> {}]

\* A detail after clearAndDestroy: no point, only the position attribute.
NoOut == [attrs |-> {"P"}, pts |-> <<>>, strIdent |-> <<>>, intIdent |-> <<>>]

\* The arrays of a cook that found no partition.
NoData(rc, e) ==
    [rc |-> rc, err |-> e, range_array |-> <<>>, string_values |-> <<>>,
     int_values |-> <<>>]

\* A node that has not cooked yet.
NoCooks == [n |-> 0, was |-> [p |-> <<>>, g |-> NoGeo, out |-> NoOut]]

\* A detail that was never cooked.
NoBound ==
    [prims |-> {}, pts |-> {}, attrs |-> {}, pos |-> <<>>, xf |-> <<>>,
     pval |-> <<>>, adhoc |-> 0, hmap |-> {}]

\* The second input of the node is not connected.
BindParked ==
    /\ bparm = [behavior |-> 0, bind |-> <<>>]
    /\ bpts = [connected |-> FALSE, attrs |-> {}, keyType |-> "none",
               key |-> <<>>]
    /\ bgdp = NoBound
    /\ mats = <<>>

\* No SOP_PrimGroupCentroid node is in the network.
CentParked ==
    /\ cparm = [mode |-> MODE_GROUP, method |-> 0, store |-> FALSE,
                group |-> <<>>, attributes |-> <<>>]
    /\ geo = NoGeo
    /\ cpc = [cur |-> "parked", v3 |-> "parked"]
    /\ cdata = NoData(0, {})
    /\ out = NoOut
    /\ outV3 = NoOut
    /\ cerr = [cur |-> {}, v3 |-> {}]
    /\ recook = NoCooks
    /\ BindParked


(***************************************************************************)
(* OP_Node: the locks that a cook holds on the inputs of its node.         *)
(***************************************************************************)
\* The nodes: SOP_IdAttribCopy, SOP_PrimGroupCentroid as it is and in its
\* version 3.0, SOP_IdBlast.
Nodes == {"copy", "cur", "v3", "blast"}

NoLocks == [n \in Nodes |-> [locked |-> 0, unlocked |-> 0]]

\* lockInputs(context) that does not fail.
lockInputs(l, node) == [l EXCEPT ![node].locked = @ + 1]

\* The mutant of unlockInputs: the inputs stay locked.
unlockInputsSkipped(l, node) == l

\* unlockInputs()
unlockInputs(l, node) == [l EXCEPT ![node].unlocked = @ + 1]

\* No SOP_IdBlast node is in the network.
BlastParked ==
    blast = [ids |-> <<>>, hasId |-> FALSE, in |-> <<>>, pc |-> "parked",
             gdp |-> {}, id_map |-> [k \in {} |-> 0], group |-> {},
             err |-> {}]

(***************************************************************************)
(* SOP_IdAttribCopy: the state after construction and the cook.            *)
(***************************************************************************)
\* The identifier assignments of the first input whose hole is h.
InIds(h) == { f \in [Off -> Ids] : h \in Off => f[h] = 0 }

\* The point identifier sequences of the second input.
SrcIds == UNION { [1 .. n -> Ids] : n \in 0 .. MaxSrc }

NoGroup == [exists |-> FALSE, members |-> {}]
NoBits == [i \in {} |-> FALSE]
IdleTasks == [t \in Pages |-> [cur |-> 1, phase |-> "done", word |-> {}]]

\* The sequences of SrcIds in which no identifier occurs twice.
UniqueSrcIds ==
    { ids \in SrcIds : \A i, j \in 1 .. Len(ids) : ids[i] = ids[j] => i = j }

\* The identifiers of a first input without hole: they cycle through Ids.
CyclicIds == [o \in Off |-> o % (MaxId + 1)]

\* Inputs for the parallel copy: any hole, any identifiers on the first
\* input, any split of the range, unique identifiers on the second input.
InitCopyShards ==
    /\ parm \in [attributes : {<<"*">>}, copyp : {TRUE}, creategroup : BOOLEAN]
    /\ \E h \in Holes, f \in [Off -> Ids] :
          /\ f \in InIds(h)
          /\ in0 = [hole |-> h, id |-> f, attrs |-> {"P", "id"}]
    /\ \E ids \in UniqueSrcIds : src = [id |-> ids, attrs |-> {"P", "id", "Cd"}]
    /\ cuts \in SUBSET (Pages \ {0})

\* Inputs for the scan of the second input: any identifier sequence, with
\* repetitions, and a first input without hole copied in one shard.
InitCopyIndex ==
    /\ parm \in [attributes : {<<"*">>}, copyp : BOOLEAN, creategroup : {FALSE}]
    /\ in0 = [hole |-> NumOff, id |-> CyclicIds, attrs |-> {"P", "id"}]
    /\ \E ids \in SrcIds : src = [id |-> ids, attrs |-> {"P", "id", "Cd"}]
    /\ cuts = {}

\* Inputs with a pattern that selects less, an attribute that is already on
\* the first input, a missing 'id' attribute or an empty pattern.
InitCopyOther ==
    /\ parm \in [attributes : {<<>>, <<"*">>, <<"Cd">>, <<"P", "Cd">>},
                 copyp : BOOLEAN, creategroup : {TRUE}]
    /\ \E as \in {{"P"}, {"P", "id"}, {"P", "id", "Cd"}} :
          in0 = [hole |-> NumOff, id |-> CyclicIds, attrs |-> as]
    /\ \E as \in {{"P", "Cd"}, {"P", "id", "Cd"}} :
          src = [id |-> <<0>>, attrs |-> as]
    /\ cuts = {}

\* The state before the cook of SOP_IdAttribCopy.
CopyIdle ==
    /\ pc = "idle"
    /\ gdp = [hole |-> NumOff, id |-> [o \in Off |-> 0], attrs |-> {},
              val |-> [a \in {} |-> 0]]
    /\ hmap = {}
    /\ id_map = EmptyMap
    /\ matches = NoBits
    /\ group = NoGroup
    /\ task = IdleTasks
    /\ writes = {}
    /\ err = {}
    /\ CentParked
    /\ BlastParked
    /\ locks = NoLocks

InitCopy ==
    /\ InitCopyShards \/ InitCopyIndex \/ InitCopyOther
    /\ CopyIdle

\* cookMySop up to the first error return: input 1 has no 'id' attribute.
cookMySop_NoId1 ==
    /\ pc = "idle"
    /\ locks' = unlockInputs(lockInputs(locks, "copy"), "copy")
    /\ "id" \notin in0.attrs
    /\ gdp' = duplicateSource(in0)
    /\ err' = err \cup {"Input 1 has no 'id' attribute."}
    /\ pc' = "exit"
    /\ UNCHANGED <<centVars, blast>>
    /\ UNCHANGED <<parm, in0, src, cuts, hmap, id_map, matches, group, task,
                   writes>>

\* The mutant of cookMySop_NoId2: the second input is tested for 'id' once
\* the reference map is built and the group created.
cookMySop_NoId2AfterMap ==
    /\ pc = "idle"
    /\ locks' = unlockInputs(lockInputs(locks, "copy"), "copy")
    /\ "id" \in in0.attrs
    /\ "id" \notin src.attrs
    /\ LET g == duplicateSource(in0)
           created == CreatedAttribs(parm.attributes, src.attrs, g.attrs)
       IN /\ gdp' = addPointAttribs(g, created)
          /\ hmap' = CopyRefMap(parm.attributes, parm.copyp, src.attrs, g.attrs)
    /\ group' = IF parm.creategroup
                THEN [exists |-> TRUE, members |-> {}]
                ELSE group
    /\ err' = err \cup {"Input 2 has no 'id' attribute."}
    /\ pc' = "exit"
    /\ UNCHANGED <<centVars, blast>>
    /\ UNCHANGED <<parm, in0, src, cuts, id_map, matches, task, writes>>

\* cookMySop up to the second error return: input 2 has no 'id' attribute.
cookMySop_NoId2 ==
    /\ pc = "idle"
    /\ locks' = unlockInputs(lockInputs(locks, "copy"), "copy")
    /\ "id" \in in0.attrs
    /\ "id" \notin src.attrs
    /\ gdp' = duplicateSource(in0)
    /\ err' = err \cup {"Input 2 has no 'id' attribute."}
    /\ pc' = "exit"
    /\ UNCHANGED <<centVars, blast>>
    /\ UNCHANGED <<parm, in0, src, cuts, hmap, id_map, matches, group, task,
                   writes>>

\* cookMySop with an empty attribute pattern: nothing selected, nothing done.
cookMySop_NoPattern ==
    /\ pc = "idle"
    /\ locks' = unlockInputs(lockInputs(locks, "copy"), "copy")
    /\ "id" \in in0.attrs
    /\ "id" \in src.attrs
    /\ Len(parm.attributes) = 0
    /\ gdp' = duplicateSource(in0)
    /\ pc' = "exit"
    /\ UNCHANGED <<centVars, blast>>
    /\ UNCHANGED <<parm, in0, src, cuts, hmap, id_map, matches, group, task,
                   writes, err>>

\* cookMySop from its entry to the dispatch of UTparallelFor: duplicate the
\* first input, build the reference map, scan the second input into the
\* identifier index, size the bit array, create the group, split the range.
cookMySop_Dispatch ==
    /\ pc = "idle"
    /\ locks' = lockInputs(locks, "copy")
    /\ "id" \in in0.attrs
    /\ "id" \in src.attrs
    /\ Len(parm.attributes) > 0
    /\ LET g == duplicateSource(in0)
           created == CreatedAttribs(parm.attributes, src.attrs, g.attrs)
       IN /\ gdp' = addPointAttribs(g, created)
          /\ hmap' = CopyRefMap(parm.attributes, parm.copyp, src.attrs, g.attrs)
    /\ id_map' = build_index(src.id, Len(src.id))
    /\ matches' = IF parm.creategroup
                  THEN [i \in 0 .. (getNumPoints(in0.hole) - 1) |-> FALSE]
                  ELSE NoBits
    /\ group' = IF parm.creategroup
                THEN [exists |-> TRUE, members |-> {}]
                ELSE group
    /\ task' = [t \in Pages |->
                  IF t \in Heads(cuts) /\ Len(ShardOffsets(cuts, t, in0.hole)) > 0
                  THEN [cur |-> 1, phase |-> "scan", word |-> {}]
                  ELSE [cur |-> 1, phase |-> "done", word |-> {}]]
    /\ pc' = "copying"
    /\ UNCHANGED <<centVars, blast>>
    /\ UNCHANGED <<parm, in0, src, cuts, writes, err>>

\* One pass of the innermost loop of AttributeIdCopier::operator() in the
\* shard t: read the id, look it up, copy on a hit, and for a matched point
\* that is to be grouped read the storage word of its bit.
Copier_Point(t) ==
    /\ pc = "copying"
    /\ task[t].phase = "scan"
    /\ LET offs == ShardOffsets(cuts, t, gdp.hole)
           pt == offs[task[t].cur]
           r == find(id_map, gdp.id[pt])
       IN /\ id_map' = r.map
          /\ IF r.hit
             THEN /\ gdp' = [gdp EXCEPT !.val =
                                copyValue(gdp.val, hmap, pt, r.map[gdp.id[pt]])]
                  /\ writes' = writes \cup {<<t, pt>>}
                  /\ IF parm.creategroup
                     THEN task' = [task EXCEPT ![t].phase = "setbit",
                                      ![t].word = WordBitsSet(matches,
                                          WordOf(pointIndex(gdp.hole, pt)))]
                     ELSE task' = Advance(task, t, Len(offs))
             ELSE /\ task' = Advance(task, t, Len(offs))
                  /\ UNCHANGED <<gdp, writes>>
    /\ UNCHANGED <<centVars, blast>>
    /\ UNCHANGED <<parm, in0, src, cuts, pc, hmap, matches, group, err, locks>>

\* myMatches->setBit(dest->pointIndex(pt), true): the word read before is
\* written back with the bit of the point set.
Copier_SetBit(t) ==
    /\ pc = "copying"
    /\ task[t].phase = "setbit"
    /\ LET offs == ShardOffsets(cuts, t, gdp.hole)
           i == pointIndex(gdp.hole, offs[task[t].cur])
       IN /\ matches' = [j \in DOMAIN matches |->
                            IF WordOf(j) = WordOf(i)
                            THEN j \in task[t].word \cup {i}
                            ELSE matches[j]]
          /\ task' = Advance(task, t, Len(offs))
    /\ UNCHANGED <<centVars, blast>>
    /\ UNCHANGED <<parm, in0, src, cuts, pc, gdp, hmap, id_map, group, writes,
                   err, locks>>

\* cookMySop after UTparallelFor has returned: the set bits become the
\* members of the group, the inputs are unlocked.
cookMySop_Finish ==
    /\ pc = "copying"
    /\ AllShardsComplete(task)
    /\ locks' = unlockInputs(locks, "copy")
    /\ group' = IF parm.creategroup
                THEN [group EXCEPT !.members =
                        { pointOffset(gdp.hole, i) :
                            i \in { j \in DOMAIN matches : matches[j] } }]
                ELSE group
    /\ pc' = "done"
    /\ UNCHANGED <<centVars, blast>>
    /\ UNCHANGED <<parm, in0, src, cuts, gdp, hmap, id_map, matches, task,
                   writes, err>>

Init == InitCopy

Next ==
    \/ cookMySop_NoId1
    \/ cookMySop_NoId2
    \/ cookMySop_NoPattern
    \/ cookMySop_Dispatch
    \/ \E t \in Pages : Copier_Point(t)
    \/ \E t \in Pages : Copier_SetBit(t)
    \/ cookMySop_Finish

Spec == Init /\ [][Next]_vars

(***************************************************************************)
(* Properties of the identifier-indexed copy.                              *)
(***************************************************************************)
\* The value an attribute of the output holds when the parallel copy starts.
PreVal(a, o) == IF a \in in0.attrs THEN InVal(a, o) ELSE DefVal(a)

\* The shard t is through with the k-th offset of its range.
Processed(t, k) ==
    \/ task[t].phase = "done"
    \/ k < task[t].cur
    \/ k = task[t].cur /\ task[t].phase = "setbit"

\* The live points of the output whose id is a key of the index.
MatchedPoints == { o \in Live(gdp.hole) : gdp.id[o] \in DOMAIN id_map }

\* C1: in the identifier-indexed copy, whatever the sharding, a destination
\* point whose id is not a key of the index keeps every attribute value it
\* had before the copy and no error is raised; once a point whose id is a key
\* has been processed, each mapped attribute holds the value of the source
\* point the index stores for that id.
C1_CopyByIdHitAndMiss ==
    pc \in {"copying", "done"} =>
        /\ err = {}
        /\ \A t \in Heads(cuts) :
             LET offs == ShardOffsets(cuts, t, gdp.hole)
             IN \A k \in 1 .. Len(offs) :
                  IF gdp.id[offs[k]] \notin DOMAIN id_map
                  THEN \A a \in DOMAIN gdp.val :
                          gdp.val[a][offs[k]] = PreVal(a, offs[k])
                  ELSE Processed(t, k) =>
                          \A a \in hmap :
                             gdp.val[a][offs[k]]
                                 = SrcVal(a, id_map[gdp.id[offs[k]]])

\* C1 witness: a finished copy over two shards with two mapped attributes,
\* one point that missed and one that took the values of another offset.
C1_Witness ==
    /\ pc = "done"
    /\ cuts # {}
    /\ Cardinality(hmap) = 2
    /\ \E o \in Live(gdp.hole) : o \notin MatchedPoints
    /\ \E o \in MatchedPoints :
          /\ id_map[gdp.id[o]] # o
          /\ \A a \in hmap : gdp.val[a][o] = SrcVal(a, id_map[gdp.id[o]])

\* C2: every write of a shard to destination attribute storage is to an
\* offset of the pages of that shard, the page sets of the shards are
\* pairwise disjoint, and no offset is written by two shards.
C2_WritesStayInShard ==
    /\ \A w \in writes : (w[2] \div PageSize) \in TaskPages(cuts, w[1])
    /\ \A t1, t2 \in Heads(cuts) :
          t1 # t2 => TaskPages(cuts, t1) \cap TaskPages(cuts, t2) = {}
    /\ \A w1, w2 \in writes : w1[2] = w2[2] => w1[1] = w2[1]

\* C2 witness: two shards have both written, one of them not yet finished.
C2_Witness ==
    /\ pc = "copying"
    /\ \E w1, w2 \in writes : w1[1] # w2[1]
    /\ \E t \in Pages : task[t].phase # "done"

\* C3: with 'Group Matched Points' on, once the parallel copy is complete the
\* set bits are exactly the indices of the matched points of the range, and
\* the group holds exactly those points.
C3_MarksAreExact ==
    (pc = "done" /\ parm.creategroup) =>
        /\ { i \in DOMAIN matches : matches[i] }
              = { pointIndex(gdp.hole, o) : o \in MatchedPoints }
        /\ group.members = MatchedPoints

\* C4: the matched group changes only while no shard is running: the shards
\* never touch it, and the bits become members only after the join.
C4_GroupOnlyAfterJoin ==
    [][group' # group => \A t \in Pages : task[t].phase = "done"]_vars

\* C4 witness: a copy over two shards is complete and the group has members.
C4_Witness ==
    /\ pc = "done"
    /\ cuts # {}
    /\ group.exists
    /\ group.members # {}

\* C5: when the parallel copy starts every id of the second input is a key of
\* the index, and no step taken during the parallel copy changes the index;
\* a lookup of an absent id adds no entry.
C5_IndexReadOnly ==
    /\ [](pc = "copying" =>
            \A s \in 1 .. Len(src.id) : src.id[s] \in DOMAIN id_map)
    /\ [][pc = "copying" => id_map' = id_map]_vars

\* C5 witness: the copy is complete, an id that is no key was looked up, and
\* it is still no key.
C5_Witness ==
    /\ pc = "done"
    /\ DOMAIN id_map # {}
    /\ \E o \in Live(gdp.hole) : gdp.id[o] \notin DOMAIN id_map

\* C6: the scan yields a map whose keys are exactly the id values of the
\* scanned points, each mapped to the offset of the last point that has it.
C6_IndexLastWriteWins ==
    pc \in {"copying", "done"} =>
        /\ DOMAIN id_map = { src.id[s] : s \in 1 .. Len(src.id) }
        /\ \A k \in DOMAIN id_map :
              /\ src.id[id_map[k] + 1] = k
              /\ \A s \in 1 .. Len(src.id) : src.id[s] = k => s - 1 <= id_map[k]

\* C6 witness: the index was built from two points with the same id.
C6_Witness ==
    /\ pc = "copying"
    /\ \E s1, s2 \in 1 .. Len(src.id) : s1 < s2 /\ src.id[s1] = src.id[s2]

(***************************************************************************)
(* Exact arithmetic on positions: a quotient is the pair [num, den], and   *)
(* a quotient by zero keeps the zero denominator.                          *)
(***************************************************************************)
Rat(n, d) == [num |-> n, den |-> d]
RAdd(a, b) == Rat(a.num * b.den + b.num * a.den, a.den * b.den)
RScale(a, k) == Rat(a.num * k, a.den)
RDivInt(a, k) == Rat(a.num, a.den * k)
REq(a, b) ==
    IF a.den = 0 \/ b.den = 0
    THEN a.den = b.den /\ a.num = b.num
    ELSE a.num * b.den = b.num * a.den

\* input_geo->getPos3(pt): the point p lies at 2^p, so that a sum of
\* positions tells which points went into it.
getPos3(pt) == 2 ^ pt

\* Sum of the positions of the first n points of a sequence.
RECURSIVE SumPos(_, _)
SumPos(pts, n) == IF n = 0 THEN 0 ELSE SumPos(pts, n - 1) + getPos3(pts[n])

(***************************************************************************)
(* SOP_PrimGroupCentroid: the centroid methods.                            *)
(***************************************************************************)
\* GA_Range(*input_geo, pr_range, GA_ATTRIB_POINT, GA_Range::primitiveref()):
\* the points referenced by the primitives of the range, each one once, in
\* offset order.
PointsOfPrims(g, pr_range) ==
    SortedSeq(UNION { g.prims[pr_range[i]].pts : i \in 1 .. Len(pr_range) })

\* baryCenter: the sum of the positions of the point range over its size.
baryCenter(g, pr_range) ==
    LET pt_range == PointsOfPrims(g, pr_range)
    IN Rat(SumPos(pt_range, Len(pt_range)), Len(pt_range))

\* boundingBox: the centre of the box enlarged by every point of the range;
\* a box that was never enlarged has the bounds +max and -max.
boundingBox(g, pr_range) ==
    LET pt_range == PointsOfPrims(g, pr_range)
        ps == { getPos3(pt_range[i]) : i \in 1 .. Len(pt_range) }
    IN IF ps = {} THEN Rat(0, 2)
       ELSE Rat((CHOOSE x \in ps : \A y \in ps : x <= y)
                  + (CHOOSE x \in ps : \A y \in ps : x >= y), 2)

\* prim->baryCenter(): the mean of the positions of the points of the
\* primitive.
primBaryCenter(prim) ==
    LET vs == SortedSeq(prim.pts)
    IN Rat(SumPos(vs, Len(vs)), Len(vs))

\* The loop of centerOfMass over the first n primitives of the range.
RECURSIVE comLoop(_, _, _)
comLoop(g, pr_range, n) ==
    IF n = 0 THEN [pos |-> Rat(0, 1), total_area |-> 0]
    ELSE LET acc == comLoop(g, pr_range, n - 1)
             prim == g.prims[pr_range[n]]
         IN [pos |-> RAdd(acc.pos, RScale(primBaryCenter(prim), prim.area)),
             total_area |-> acc.total_area + prim.area]

\* The mutant of centerOfMass: the division is not guarded.
centerOfMassUnguarded(g, pr_range) ==
    LET acc == comLoop(g, pr_range, Len(pr_range))
    IN RDivInt(acc.pos, acc.total_area)

\* centerOfMass.
centerOfMass(g, pr_range) ==
    LET acc == comLoop(g, pr_range, Len(pr_range))
    IN IF acc.total_area # 0 THEN RDivInt(acc.pos, acc.total_area) ELSE acc.pos

(***************************************************************************)
(* Version 3.0 of the node: baryCenter with the point mask of the cook.    *)
(***************************************************************************)
\* The inner loop over the first n points of a primitive.
RECURSIVE baryPointsV3(_, _, _)
baryPointsV3(pts, n, acc) ==
    IF n = 0 THEN acc
    ELSE LET a == baryPointsV3(pts, n - 1, acc)
             pt_idx == pts[n]
         IN IF a.pt_mask[pt_idx] THEN a
            ELSE [pos |-> a.pos + getPos3(pt_idx),
                  pt_mask |-> [a.pt_mask EXCEPT ![pt_idx] = TRUE],
                  num_pts |-> a.num_pts + 1]

\* The outer loop over the first n primitives of the range.
RECURSIVE baryPrimsV3(_, _, _, _)
baryPrimsV3(g, pr_range, n, acc) ==
    IF n = 0 THEN acc
    ELSE LET pts == SortedSeq(g.prims[pr_range[n]].pts)
         IN baryPointsV3(pts, Len(pts), baryPrimsV3(g, pr_range, n - 1, acc))

\* The mutant of setAllBits: the mask is handed on as it is.
keepBits(mask, b) == mask

\* pt_mask.setAllBits(0)
setAllBits(mask, b) == [i \in DOMAIN mask |-> b]

\* baryCenter of version 3.0: the position and the mask left for the next
\* call.
baryCenterV3(g, pt_mask, pr_range) ==
    LET acc == baryPrimsV3(g, pr_range, Len(pr_range),
                           [pos |-> 0, pt_mask |-> pt_mask, num_pts |-> 0])
    IN [pos |-> Rat(acc.pos, acc.num_pts),
        pt_mask |-> setAllBits(acc.pt_mask, FALSE)]

(***************************************************************************)
(* SOP_PrimGroupCentroid: the partitioner.                                 *)
(***************************************************************************)
\* input_geo->getUniqueIntegerValue: the distinct values, ascending.
uniqueIntegerValues(vals) == SortedSeq({ vals[k] : k \in DOMAIN vals })

\* input_geo->getUniqueStringValue: the distinct non-empty strings among the
\* first n values, in the order in which they first occur.
RECURSIVE uniqueStringValues(_, _)
uniqueStringValues(vals, n) ==
    IF n = 0 THEN <<>>
    ELSE LET u == uniqueStringValues(vals, n - 1)
         IN IF vals[n] = "" \/ \E i \in 1 .. Len(u) : u[i] = vals[n]
            THEN u
            ELSE Append(u, vals[n])

\* input_geo->getRangeByValue: the primitives that hold the value.
getRangeByValue(vals, v) == SortedSeq({ k \in DOMAIN vals : vals[k] = v })

\* The mutant of attribLoop: the labels are stored in reverse.
RECURSIVE attribLoopReversed(_, _, _)
attribLoopReversed(vals, unique, n) ==
    IF n = 0 THEN [range_array |-> <<>>, values |-> <<>>]
    ELSE LET d == attribLoopReversed(vals, unique, n - 1)
         IN [range_array |->
                Append(d.range_array, getRangeByValue(vals, unique[n])),
             values |-> <<unique[n]>> \o d.values]

\* The loop of buildAttribData over the first n unique values: each appends
\* its primitive range and its value.
RECURSIVE attribLoop(_, _, _)
attribLoop(vals, unique, n) ==
    IF n = 0 THEN [range_array |-> <<>>, values |-> <<>>]
    ELSE LET d == attribLoop(vals, unique, n - 1)
         IN [range_array |->
                Append(d.range_array, getRangeByValue(vals, unique[n])),
             values |-> Append(d.values, unique[n])]

\* The mutant of buildAttribData: it returns 1 without addError.
buildAttribDataSilent(mode, g) ==
    LET type == IF mode = MODE_NAME THEN g.nameType ELSE g.classType
    IN IF \/ type = "none"
          \/ mode = MODE_NAME /\ type # "string"
          \/ mode = MODE_CLASS /\ type # "int"
       THEN NoData(1, {})
       ELSE IF mode = MODE_NAME
       THEN LET u == uniqueStringValues(g.name, Len(g.name))
                d == attribLoop(g.name, u, Len(u))
            IN [rc |-> 0, err |-> {}, range_array |-> d.range_array,
                string_values |-> d.values, int_values |-> <<>>]
       ELSE LET u == uniqueIntegerValues(g.class)
                d == attribLoop(g.class, u, Len(u))
            IN [rc |-> 0, err |-> {}, range_array |-> d.range_array,
                string_values |-> <<>>, int_values |-> d.values]

\* buildAttribData.
buildAttribData(mode, g) ==
    LET type == IF mode = MODE_NAME THEN g.nameType ELSE g.classType
    IN IF type = "none"
       THEN NoData(1, {IF mode = MODE_NAME THEN "name" ELSE "class"})
       ELSE IF mode = MODE_NAME /\ type # "string"
       THEN NoData(1, {"'name' must be a string."})
       ELSE IF mode = MODE_CLASS /\ type # "int"
       THEN NoData(1, {"'class' must be an integer."})
       ELSE IF mode = MODE_NAME
       THEN LET u == uniqueStringValues(g.name, Len(g.name))
                d == attribLoop(g.name, u, Len(u))
            IN [rc |-> 0, err |-> {}, range_array |-> d.range_array,
                string_values |-> d.values, int_values |-> <<>>]
       ELSE LET u == uniqueIntegerValues(g.class)
                d == attribLoop(g.class, u, Len(u))
            IN [rc |-> 0, err |-> {}, range_array |-> d.range_array,
                string_values |-> <<>>, int_values |-> d.values]

\* The mutant of groupLoop: internal groups are not skipped.
RECURSIVE groupLoopWithInternal(_, _, _)
groupLoopWithInternal(tokens, groups, n) ==
    IF n = 0 THEN [range_array |-> <<>>, values |-> <<>>]
    ELSE LET d == groupLoopWithInternal(tokens, groups, n - 1)
             grp == groups[n]
         IN IF ~matchPattern(grp.name, tokens) THEN d
            ELSE [range_array |->
                     Append(d.range_array, SortedSeq(grp.members)),
                  values |-> Append(d.values, grp.name)]

\* The loop of buildGroupData over the first n primitive groups.
RECURSIVE groupLoop(_, _, _)
groupLoop(tokens, groups, n) ==
    IF n = 0 THEN [range_array |-> <<>>, values |-> <<>>]
    ELSE LET d == groupLoop(tokens, groups, n - 1)
             grp == groups[n]
         IN IF grp.internal \/ ~matchPattern(grp.name, tokens) THEN d
            ELSE [range_array |->
                     Append(d.range_array, SortedSeq(grp.members)),
                  values |-> Append(d.values, grp.name)]

\* buildGroupData.
buildGroupData(pattern, g) ==
    LET d == groupLoop(pattern, g.groups, Len(g.groups))
    IN [rc |-> 0, err |-> {}, range_array |-> d.range_array,
        string_values |-> d.values, int_values |-> <<>>]

(***************************************************************************)
(* SOP_PrimGroupCentroid: the attribute reference map.                     *)
(***************************************************************************)
\* The public primitive attributes of the input.
primitiveAttribs(g) ==
    g.pattrs \cup (IF g.nameType # "none" THEN {"name"} ELSE {})
             \cup (IF g.classType # "none" THEN {"class"} ELSE {})

\* buildRefMap: the source attributes that are appended to the map, each
\* with a destination attribute created for it.
buildRefMap(pattern, srcAttrs, mode, owner, dstAttrs) ==
    IF Len(pattern) = 0 THEN {}
    ELSE { a \in srcAttrs :
             /\ matchPattern(a, pattern)
             /\ ~(mode = MODE_NAME /\ a = "name")
             /\ ~(mode = MODE_CLASS /\ a = "class")
             /\ (owner = "point" => a # "P")
             /\ a \notin dstAttrs }

\* The mapped attributes whose values are numbers.
NumericAttribs(g, map) ==
    { a \in map : \/ a = "Cd"
                  \/ a = "class" /\ g.classType = "int"
                  \/ a = "name" /\ g.nameType = "int" }

\* The value of a numeric primitive attribute on the primitive k.
primValue(g, a, k) ==
    IF a = "class" THEN g.class[k]
    ELSE IF a = "name" THEN g.name[k]
    ELSE 3 ^ k

\* addSumValue with weight 1 over the first n primitives of the range.
RECURSIVE sumValues(_, _, _, _)
sumValues(g, a, pr_range, n) ==
    IF n = 0 THEN 0
    ELSE sumValues(g, a, pr_range, n - 1) + primValue(g, a, pr_range[n])

\* The mutant of weightedSum: finishSum does not scale.
weightedSumUnscaled(g, map, pr_range) ==
    [a \in NumericAttribs(g, map) |->
        Rat(sumValues(g, a, pr_range, Len(pr_range)), 1)]

\* startSum, addSumValue for each primitive, finishSum with 1 / entries.
weightedSum(g, map, pr_range) ==
    [a \in NumericAttribs(g, map) |->
        Rat(sumValues(g, a, pr_range, Len(pr_range)), Len(pr_range))]

(***************************************************************************)
(* SOP_PrimGroupCentroid: buildCentroids.                                  *)
(***************************************************************************)
\* The position of the point of a range for the method.
centroid(g, method, pr_range) ==
    IF method = 1 THEN boundingBox(g, pr_range)
    ELSE IF method = 2 THEN centerOfMass(g, pr_range)
    ELSE baryCenter(g, pr_range)

\* The mutant of centroidPoints: the first range gets no point.
centroidPointsSkipFirst(g, method, map, range_array) ==
    [i \in 1 .. (Len(range_array) - 1) |->
        [pos |-> centroid(g, method, range_array[i + 1]),
         attr |-> weightedSum(g, map, range_array[i + 1])]]

\* The loop of buildCentroids over the ranges: one point is appended for
\* each, with its position and its averaged attributes.
centroidPoints(g, method, map, range_array) ==
    [i \in 1 .. Len(range_array) |->
        [pos |-> centroid(g, method, range_array[i]),
         attr |-> weightedSum(g, map, range_array[i])]]

\* The mutant of partitionData: an empty group pattern is an error.
partitionDataEmptyIsError(p, g) ==
    IF p.mode = MODE_GROUP
    THEN IF Len(p.group) = 0 THEN NoData(1, {"group"})
         ELSE buildGroupData(p.group, g)
    ELSE buildAttribData(p.mode, g)

\* The mutant of partitionData: a group without primitives, and a partition
\* whose primitives have no area at all, are an error.
partitionDataDegenerateIsError(p, g) ==
    LET d == IF p.mode = MODE_GROUP
             THEN IF Len(p.group) = 0 THEN NoData(1, {})
                  ELSE buildGroupData(p.group, g)
             ELSE buildAttribData(p.mode, g)
    IN IF /\ d.rc = 0
          /\ \E i \in 1 .. Len(d.range_array) :
                \A k \in { d.range_array[i][j] :
                             j \in 1 .. Len(d.range_array[i]) } :
                   g.prims[k].area = 0
       THEN NoData(1, {"degenerate"})
       ELSE d

\* The partitioning step of buildCentroids: by groups, unless the pattern
\* is empty, or by the 'name' or 'class' attribute.
partitionData(p, g) ==
    IF p.mode = MODE_GROUP
    THEN IF Len(p.group) = 0 THEN NoData(1, {})
         ELSE buildGroupData(p.group, g)
    ELSE buildAttribData(p.mode, g)

\* buildCentroids: the return code, the errors, and the output detail.
buildCentroids(p, g) ==
    LET ident == IF ~p.store THEN {}
                 ELSE IF p.mode = MODE_CLASS THEN {"class"}
                 ELSE IF p.mode = MODE_GROUP THEN {"group"}
                 ELSE {"name"}
        map == buildRefMap(p.attributes, primitiveAttribs(g), p.mode,
                           "primitive", {"P"} \cup ident)
        attrs == {"P"} \cup ident \cup map
        data == partitionData(p, g)
    IN IF data.rc # 0
       THEN [rc |-> 1, err |-> data.err, data |-> data,
             gdp |-> [NoOut EXCEPT !.attrs = attrs]]
       ELSE [rc |-> 0, err |-> {}, data |-> data,
             gdp |-> [attrs |-> attrs,
                      pts |-> centroidPoints(g, p.method, map,
                                             data.range_array),
                      strIdent |-> IF p.store /\ p.mode # MODE_CLASS
                                   THEN data.string_values ELSE <<>>,
                      intIdent |-> IF p.store /\ p.mode = MODE_CLASS
                                   THEN data.int_values ELSE <<>>]]

(***************************************************************************)
(* SOP_PrimGroupCentroid, version 3.0: the cook.                           *)
(***************************************************************************)
\* The point of a range in version 3.0, given the mask handed on by the
\* point before: [pos, pt_mask].
centroidV3(g, method, pt_mask, pr_range) ==
    IF method = 2
    THEN [pos |-> centerOfMass(g, pr_range), pt_mask |-> pt_mask]
    ELSE baryCenterV3(g, pt_mask, pr_range)

\* The loop over the first n ranges: the points and the mask left behind.
RECURSIVE loopV3(_, _, _, _, _)
loopV3(g, method, range_array, n, pt_mask) ==
    IF n = 0 THEN [pts |-> <<>>, pt_mask |-> pt_mask]
    ELSE LET a == loopV3(g, method, range_array, n - 1, pt_mask)
             c == centroidV3(g, method, a.pt_mask, range_array[n])
         IN [pts |-> Append(a.pts, [pos |-> c.pos]), pt_mask |-> c.pt_mask]

\* cookMySop of version 3.0 for the methods 0 and 2.
cookV3(p, g) ==
    LET useName == p.mode = MODE_NAME
        attrs == {"P"} \cup (IF ~p.store THEN {}
                             ELSE IF useName THEN {"name"}
                             ELSE {"source_group"})
        pt_mask == [i \in Pt |-> FALSE]
        u == uniqueStringValues(g.name, Len(g.name))
        d == IF useName THEN attribLoop(g.name, u, Len(u))
             ELSE groupLoop(p.group, g.groups, Len(g.groups))
    IN IF ~useName /\ Len(p.group) = 0
       THEN [rc |-> 1, err |-> {}, gdp |-> NoOut]
       ELSE IF useName /\ g.nameType = "none"
       THEN [rc |-> 1, err |-> {"name"},
             gdp |-> [NoOut EXCEPT !.attrs = attrs]]
       ELSE [rc |-> 0, err |-> {},
             gdp |-> [attrs |-> attrs,
                      pts |-> loopV3(g, p.method, d.range_array,
                                     Len(d.range_array), pt_mask).pts,
                      strIdent |-> IF p.store THEN d.values ELSE <<>>,
                      intIdent |-> <<>>]]

(***************************************************************************)
(* SOP_PrimGroupCentroid: the state after construction.                    *)
(***************************************************************************)
\* No SOP_IdAttribCopy node is in the network.
CopyParked ==
    /\ parm = [attributes |-> <<>>, copyp |-> FALSE, creategroup |-> FALSE]
    /\ in0 = [hole |-> NumOff, id |-> CyclicIds, attrs |-> {"P"}]
    /\ src = [id |-> <<>>, attrs |-> {"P"}]
    /\ cuts = {}
    /\ pc = "parked"
    /\ gdp = [hole |-> NumOff, id |-> [o \in Off |-> 0], attrs |-> {},
              val |-> [a \in {} |-> 0]]
    /\ hmap = {}
    /\ id_map = EmptyMap
    /\ matches = NoBits
    /\ group = NoGroup
    /\ task = IdleTasks
    /\ writes = {}
    /\ err = {}
    /\ locks = NoLocks

PrimCounts == 0 .. MaxPrim

\* The primitive k is an edge from the point k - 1 to the next point.
EdgePrims(n, areas) ==
    [k \in 1 .. n |-> [pts |-> {(k - 1) % MaxPt, k % MaxPt},
                       area |-> areas[k]]]

UnitAreas(n) == [k \in 1 .. n |-> 1]
CyclicNames(n) == [k \in 1 .. n |-> IF k % 2 = 1 THEN "a" ELSE "b"]
CyclicClasses(n) == [k \in 1 .. n |-> (k - 1) % (MaxKey + 1)]

\* Primitives of any shape, partitioned by a 'name' attribute: overlapping
\* primitives, and partitions that share points.
InitShapes ==
    /\ cparm = [mode |-> MODE_NAME, method |-> 0, store |-> FALSE,
                group |-> <<>>, attributes |-> <<>>]
    /\ \E n \in PrimCounts \ {0} :
       \E shapes \in [1 .. n -> (SUBSET Pt) \ {{}}] :
          geo = [prims |-> [k \in 1 .. n |-> [pts |-> shapes[k], area |-> 1]],
                 nameType |-> "string", name |-> CyclicNames(n),
                 classType |-> "int", class |-> CyclicClasses(n),
                 groups |-> <<>>, pattrs |-> {}]

\* Any assignment of the partitioning attribute, with unset names.
InitKeys ==
    /\ cparm \in [mode : {MODE_NAME, MODE_CLASS}, method : 0 .. 2,
                  store : BOOLEAN, group : {<<>>},
                  attributes : {<<>>, <<"*">>}]
    /\ \E n \in PrimCounts :
       \E names \in [1 .. n -> Names], classes \in [1 .. n -> Keys] :
          /\ cparm.mode = MODE_NAME => classes = CyclicClasses(n)
          /\ cparm.mode = MODE_CLASS => names = CyclicNames(n)
          /\ geo = [prims |-> EdgePrims(n, UnitAreas(n)),
                    nameType |-> "string", name |-> names,
                    classType |-> "int", class |-> classes,
                    groups |-> <<>>, pattrs |-> {"Cd"}]

\* Any areas, zero included, for the centre of mass.
InitMasses ==
    /\ cparm \in [mode : {MODE_NAME, MODE_CLASS}, method : {2},
                  store : {FALSE}, group : {<<>>}, attributes : {<<>>}]
    /\ \E n \in PrimCounts \ {0} :
       \E areas \in [1 .. n -> Areas], classes \in [1 .. n -> Keys] :
          /\ cparm.mode = MODE_NAME => classes = CyclicClasses(n)
          /\ geo = [prims |-> EdgePrims(n, areas),
                    nameType |-> "string", name |-> CyclicNames(n),
                    classType |-> "int", class |-> classes,
                    groups |-> <<>>, pattrs |-> {}]

\* The values of an attribute of the given type on n primitives.
TypedValues(type, n) ==
    IF type = "none" THEN <<>>
    ELSE IF type = "int" THEN CyclicClasses(n)
    ELSE CyclicNames(n)

\* Primitive groups that may overlap or be empty, an internal group, and
\* partitioning attributes that are missing or of the wrong type.
InitOther ==
    /\ cparm \in [mode : {MODE_GROUP, MODE_NAME, MODE_CLASS}, method : 0 .. 2,
                  store : BOOLEAN, group : {<<>>, <<"*">>, <<"g2">>},
                  attributes : {<<>>, <<"*">>, <<"Cd">>}]
    /\ \E m1, m2 \in SUBSET (1 .. MaxPrim),
          nt, ct \in {"none", "string", "int"} :
          /\ cparm.mode = MODE_GROUP => nt = "string" /\ ct = "int"
          /\ cparm.mode # MODE_GROUP =>
                m1 = {1} /\ m2 = {} /\ cparm.group = <<>> /\ cparm.method = 0
          /\ geo = [prims |-> EdgePrims(MaxPrim, UnitAreas(MaxPrim)),
                    nameType |-> nt, name |-> TypedValues(nt, MaxPrim),
                    classType |-> ct, class |-> TypedValues(ct, MaxPrim),
                    groups |-> <<[name |-> "g1", internal |-> FALSE,
                                  members |-> m1],
                                 [name |-> "g2", internal |-> FALSE,
                                  members |-> m2],
                                 [name |-> "g3", internal |-> TRUE,
                                  members |-> 1 .. MaxPrim]>>,
                    pattrs |-> {"Cd"}]

\* Version 3.0 partitions by group or by 'name', on a string attribute; its
\* methods 0 and 2 are followed.
CooksV3 ==
    /\ cparm.mode # MODE_CLASS
    /\ cparm.method # 1
    /\ geo.nameType # "int"

InitCentroid ==
    /\ InitShapes \/ InitKeys \/ InitMasses \/ InitOther
    /\ cpc = [cur |-> "idle", v3 |-> IF CooksV3 THEN "idle" ELSE "parked"]
    /\ cdata = NoData(0, {})
    /\ out = NoOut
    /\ outV3 = NoOut
    /\ cerr = [cur |-> {}, v3 |-> {}]
    /\ recook = NoCooks
    /\ BindParked
    /\ CopyParked
    /\ BlastParked

(***************************************************************************)
(* SOP_PrimGroupCentroid: the cooks.                                       *)
(***************************************************************************)
\* The mutant of clearAndDestroy: the detail keeps what it holds.
clearAndDestroyKeeps(d) == d

\* GU_Detail::clearAndDestroy: no point and no attribute but P is left.
clearAndDestroy(d) == NoOut

\* The CREATE branch of cookMySop on the detail that the cook before left:
\* the detail is cleared, and buildCentroids adds its attributes and points.
cookCreate(d, p, g) ==
    LET base == clearAndDestroy(d)
        r == buildCentroids(p, g)
    IN [r EXCEPT !.gdp = [attrs |-> base.attrs \cup r.gdp.attrs,
                          pts |-> base.pts \o r.gdp.pts,
                          strIdent |-> base.strIdent \o r.gdp.strIdent,
                          intIdent |-> base.intIdent \o r.gdp.intIdent]]

\* cookMySop with one connected input: clearAndDestroy, buildCentroids.
PrimGroupCentroid_cookMySop ==
    /\ cpc.cur = "idle"
    /\ ~bpts.connected
    /\ locks' = unlockInputs(lockInputs(locks, "cur"), "cur")
    /\ \E r \in {cookCreate(out, cparm, geo)} :
          /\ out' = r.gdp
          /\ cdata' = r.data
          /\ recook' = [recook EXCEPT !.n = @ + 1]
          /\ cerr' = [cerr EXCEPT !.cur = r.err]
          /\ cpc' = [cpc EXCEPT !.cur = IF r.rc = 0 THEN "done" ELSE "exit"]
    /\ UNCHANGED <<cparm, geo, outV3, bparm, bpts, bgdp, mats>>
    /\ UNCHANGED <<copyVars, blast>>

\* cookMySop of version 3.0.
PrimGroupCentroidV3_cookMySop ==
    /\ cpc.v3 = "idle"
    /\ locks' = unlockInputs(lockInputs(locks, "v3"), "v3")
    /\ \E r \in {cookV3(cparm, geo)} :
          /\ outV3' = r.gdp
          /\ cerr' = [cerr EXCEPT !.v3 = r.err]
          /\ cpc' = [cpc EXCEPT !.v3 = IF r.rc = 0 THEN "done" ELSE "exit"]
    /\ UNCHANGED <<cparm, geo, out, cdata, bparm, bpts, bgdp, mats, recook>>
    /\ UNCHANGED <<copyVars, blast>>

NextCentroid ==
    \/ PrimGroupCentroid_cookMySop
    \/ PrimGroupCentroidV3_cookMySop

SpecCentroid == InitCentroid /\ [][NextCentroid]_vars

(***************************************************************************)
(* SOP_PrimGroupCentroid: a node that cooks again and again.               *)
(***************************************************************************)
\* The inputs and parameters between which the node is switched: each mode,
\* with and without the stored identifier, with a key attribute that is
\* there or missing, and a group pattern that is empty or not.
RecookInputs ==
    { i \in [p : [mode : {MODE_GROUP, MODE_NAME, MODE_CLASS}, method : {0},
                  store : BOOLEAN, group : {<<>>, <<"*">>},
                  attributes : {<<"*">>}],
              g : { [prims |-> EdgePrims(n, UnitAreas(n)),
                     nameType |-> t[1], name |-> TypedValues(t[1], n),
                     classType |-> t[2], class |-> TypedValues(t[2], n),
                     groups |-> <<[name |-> "g1", internal |-> FALSE,
                                   members |-> {1}],
                                  [name |-> "g2", internal |-> FALSE,
                                   members |-> {}]>>,
                     pattrs |-> {"Cd"}] :
                    n \in {1, MaxPrim},
                    t \in {<<"string", "int">>, <<"none", "none">>} }] :
        /\ i.p.mode = MODE_GROUP => i.g.nameType = "string"
        /\ i.p.mode # MODE_GROUP => i.p.group = <<>>
        /\ Len(i.g.prims) = 1 => i.p.store }

InitRecook ==
    /\ \E i \in RecookInputs : cparm = i.p /\ geo = i.g
    /\ cpc = [cur |-> "idle", v3 |-> "parked"]
    /\ cdata = NoData(0, {})
    /\ out = NoOut
    /\ outV3 = NoOut
    /\ cerr = [cur |-> {}, v3 |-> {}]
    /\ recook = NoCooks
    /\ BindParked
    /\ CopyParked
    /\ BlastParked

\* The input or a parameter changes, or neither does, and the node is asked
\* to cook again; what the cook before read and left is noted.
PrimGroupCentroid_Recook ==
    /\ cpc.cur \in {"done", "exit"}
    /\ recook.n < MaxCooks
    /\ \E i \in RecookInputs : cparm' = i.p /\ geo' = i.g
    /\ recook' = [recook EXCEPT !.was = [p |-> cparm, g |-> geo, out |-> out]]
    /\ cpc' = [cpc EXCEPT !.cur = "idle"]
    /\ UNCHANGED <<cdata, out, outV3, cerr, bparm, bpts, bgdp, mats, locks>>
    /\ UNCHANGED <<copyVars, blast>>

NextRecook ==
    \/ PrimGroupCentroid_cookMySop
    \/ PrimGroupCentroid_Recook

SpecRecook == InitRecook /\ [][NextRecook]_vars

(***************************************************************************)
(* SOP_PrimGroupCentroid: the properties.                                  *)
(***************************************************************************)
RangeSet(r) == { r[i] : i \in 1 .. Len(r) }

\* The distinct points referenced by the primitives of a partition.
PartitionPoints(g, r) == UNION { g.prims[k].pts : k \in RangeSet(r) }

\* The sum of the positions of a set of points.
RECURSIVE SetSumPos(_)
SetSumPos(S) ==
    IF S = {} THEN 0
    ELSE LET x == CHOOSE y \in S : TRUE
         IN getPos3(x) + SetSumPos(S \ {x})

\* The partitions of a cook that got as far as its loop.
RangesOf(p, g) ==
    IF p.mode = MODE_GROUP THEN buildGroupData(p.group, g).range_array
    ELSE buildAttribData(p.mode, g).range_array

\* The positions are the barycenters of the distinct points of the ranges.
AreBaryCenters(pts, g, ranges) ==
    /\ Len(pts) = Len(ranges)
    /\ \A i \in 1 .. Len(ranges) :
          LET U == PartitionPoints(g, ranges[i])
          IN REq(pts[i].pos, Rat(SetSumPos(U), Cardinality(U)))

\* C7: in a cook with the BARYCENTER method, of the present node and of
\* version 3.0 alike, the point of every partition lies at the sum of the
\* positions of the distinct points that the primitives of the partition
\* reference, divided by the number of those points: a point of several
\* primitives counts once, and a point shared with an earlier partition
\* still counts.
C7_BaryCenterCountsDistinctPoints ==
    /\ (cpc.cur = "done" /\ cparm.method = 0)
          => AreBaryCenters(out.pts, geo, cdata.range_array)
    /\ (cpc.v3 = "done" /\ cparm.method = 0)
          => AreBaryCenters(outV3.pts, geo, RangesOf(cparm, geo))

\* Both cooks are done with two partitions: two primitives of the second
\* share a point, and the second shares a point with the first.
C7_Witness ==
    /\ cpc.cur = "done" /\ cpc.v3 = "done" /\ cparm.method = 0
    /\ Len(cdata.range_array) = 2
    /\ \E k1, k2 \in RangeSet(cdata.range_array[2]) :
          k1 # k2 /\ geo.prims[k1].pts \cap geo.prims[k2].pts # {}
    /\ PartitionPoints(geo, cdata.range_array[1])
          \cap PartitionPoints(geo, cdata.range_array[2]) # {}
    /\ ~REq(out.pts[1].pos, out.pts[2].pos)

\* The orders in which the primitives of a set can be visited.
OrdersOf(S) ==
    { q \in [1 .. Cardinality(S) -> S] :
        \A i, j \in 1 .. Cardinality(S) : q[i] = q[j] => i = j }

\* The sum of area times barycenter, and the sum of the areas, of a set of
\* primitives.
RECURSIVE SetMass(_, _)
SetMass(g, S) ==
    IF S = {} THEN [pos |-> Rat(0, 1), total_area |-> 0]
    ELSE LET k == CHOOSE y \in S : TRUE
             rest == SetMass(g, S \ {k})
         IN [pos |-> RAdd(RScale(primBaryCenter(g.prims[k]), g.prims[k].area),
                          rest.pos),
             total_area |-> g.prims[k].area + rest.total_area]

\* C8: in a cook with the CENTER OF MASS method the point of every partition
\* lies at the sum of area times barycenter of its primitives divided by the
\* sum of their areas, in whatever order the primitives are visited; when
\* the areas sum to zero nothing is divided and the point lies at zero.
C8_CenterOfMassIsAreaWeighted ==
    (cpc.cur = "done" /\ cparm.method = 2) =>
        /\ Len(out.pts) = Len(cdata.range_array)
        /\ \A i \in 1 .. Len(cdata.range_array) :
              LET S == RangeSet(cdata.range_array[i])
                  m == SetMass(geo, S)
                  pos == out.pts[i].pos
              IN /\ pos.den # 0
                 /\ m.total_area # 0 => REq(pos, RDivInt(m.pos, m.total_area))
                 /\ m.total_area = 0 => REq(pos, Rat(0, 1))
                 /\ \A q \in OrdersOf(S) : REq(centerOfMass(geo, q), pos)

\* A cook with the method is done: one partition has no area at all, another
\* has primitives of different positive areas.
C8_Witness ==
    /\ cpc.cur = "done" /\ cparm.method = 2
    /\ \E i, j \in 1 .. Len(cdata.range_array) :
          /\ \A k \in RangeSet(cdata.range_array[i]) : geo.prims[k].area = 0
          /\ \E k1, k2 \in RangeSet(cdata.range_array[j]) :
                /\ geo.prims[k1].area > geo.prims[k2].area
                /\ geo.prims[k2].area > 0

\* C9: a cook that creates centroids and succeeds leaves one point for each
\* partition, the i-th point at the centroid of the i-th partition; with
\* 'Store Source Identifier' the i-th point carries the label of the i-th
\* partition: the group name in the string attribute 'group', the string
\* value in 'name', or the integer value in 'class'.
C9_OnePointPerPartitionWithLabel ==
    cpc.cur = "done" =>
        /\ Len(out.pts) = Len(cdata.range_array)
        /\ \A i \in 1 .. Len(cdata.range_array) :
              REq(out.pts[i].pos,
                  centroid(geo, cparm.method, cdata.range_array[i]))
        /\ (cparm.store /\ cparm.mode = MODE_CLASS) =>
              /\ "class" \in out.attrs
              /\ Len(out.intIdent) = Len(cdata.range_array)
              /\ \A i \in 1 .. Len(cdata.range_array) :
                    \A k \in RangeSet(cdata.range_array[i]) :
                       out.intIdent[i] = geo.class[k]
        /\ (cparm.store /\ cparm.mode = MODE_NAME) =>
              /\ "name" \in out.attrs
              /\ Len(out.strIdent) = Len(cdata.range_array)
              /\ \A i \in 1 .. Len(cdata.range_array) :
                    \A k \in RangeSet(cdata.range_array[i]) :
                       out.strIdent[i] = geo.name[k]
        /\ (cparm.store /\ cparm.mode = MODE_GROUP) =>
              /\ "group" \in out.attrs
              /\ Len(out.strIdent) = Len(cdata.range_array)
              /\ \A i \in 1 .. Len(cdata.range_array) :
                    \E n \in 1 .. Len(geo.groups) :
                       /\ geo.groups[n].name = out.strIdent[i]
                       /\ geo.groups[n].members
                             = RangeSet(cdata.range_array[i])

\* A cook that stores the identifier is done with two group partitions of
\* different primitives.
C9_Witness ==
    /\ cpc.cur = "done" /\ cparm.store /\ cparm.mode = MODE_GROUP
    /\ Len(out.pts) = 2
    /\ out.strIdent = <<"g1", "g2">>
    /\ RangeSet(cdata.range_array[1]) # RangeSet(cdata.range_array[2])

\* C10: after buildAttribData in the NAME or CLASS mode there are as many
\* partitions as distinct values of the key attribute, no two partitions
\* share a primitive, every primitive that carries a value is in exactly
\* one partition, and the list of labels is as long as the list of
\* partitions and in the same order: the i-th label is the value of the
\* primitives of the i-th partition.
C10_AttribPartitionsAreExact ==
    (cpc.cur = "done" /\ cparm.mode # MODE_GROUP) =>
        LET vals == IF cparm.mode = MODE_NAME THEN geo.name ELSE geo.class
            valued == { k \in DOMAIN vals :
                          cparm.mode = MODE_NAME => vals[k] # "" }
            labels == IF cparm.mode = MODE_NAME THEN cdata.string_values
                      ELSE cdata.int_values
            ranges == cdata.range_array
        IN /\ Len(ranges) = Cardinality({ vals[k] : k \in valued })
           /\ \A i, j \in 1 .. Len(ranges) :
                 i # j => RangeSet(ranges[i]) \cap RangeSet(ranges[j]) = {}
           /\ \A k \in valued :
                 Cardinality({ i \in 1 .. Len(ranges) :
                                 k \in RangeSet(ranges[i]) }) = 1
           /\ Len(labels) = Len(ranges)
           /\ \A i \in 1 .. Len(ranges) :
                 /\ RangeSet(ranges[i]) # {}
                 /\ \A k \in RangeSet(ranges[i]) : vals[k] = labels[i]

\* A cook in the NAME mode is done: the first primitive has no name, the
\* others fall into two partitions, the later name first.
C10_Witness ==
    /\ cpc.cur = "done" /\ cparm.mode = MODE_NAME
    /\ Len(geo.name) = 3 /\ geo.name[1] = ""
    /\ cdata.string_values = <<"b", "a">>
    /\ Len(cdata.range_array) = 2

\* The positions in the group table of the groups that a pattern keeps.
KeptGroups(p, g) ==
    SortedSeq({ n \in 1 .. Len(g.groups) :
                  /\ ~g.groups[n].internal
                  /\ matchPattern(g.groups[n].name, p.group) })

\* C11: in the GROUP mode the partition list holds, in the order of the
\* group table, exactly the primitive groups that are not internal and whose
\* name matches the pattern: the label of an entry is the name of the group
\* and its primitives are the members of the group, overlapping or not.
C11_GroupPartitionsAreTheMatchingGroups ==
    (cpc.cur = "done" /\ cparm.mode = MODE_GROUP) =>
        LET kept == KeptGroups(cparm, geo)
        IN /\ Len(cdata.range_array) = Len(kept)
           /\ Len(cdata.string_values) = Len(kept)
           /\ \A i \in 1 .. Len(kept) :
                 /\ cdata.string_values[i] = geo.groups[kept[i]].name
                 /\ RangeSet(cdata.range_array[i]) = geo.groups[kept[i]].members
                 /\ Len(cdata.range_array[i])
                       = Cardinality(geo.groups[kept[i]].members)

\* A cook by groups is done with the pattern "*": two overlapping groups
\* that differ are listed, the internal group is not.
C11_Witness ==
    /\ cpc.cur = "done" /\ cparm.mode = MODE_GROUP /\ cparm.group = <<"*">>
    /\ cdata.string_values = <<"g1", "g2">>
    /\ \E n \in 1 .. Len(geo.groups) : geo.groups[n].internal
    /\ RangeSet(cdata.range_array[1]) \cap RangeSet(cdata.range_array[2]) # {}
    /\ RangeSet(cdata.range_array[1]) # RangeSet(cdata.range_array[2])

\* The partition key attribute of the mode is missing or of the wrong type.
KeyAttribInvalid(p, g) ==
    \/ p.mode = MODE_NAME /\ g.nameType # "string"
    \/ p.mode = MODE_CLASS /\ g.classType # "int"

\* C12: a cook that creates centroids in the NAME (CLASS) mode on an input
\* without primitive attribute 'name' ('class'), or with one that is not a
\* string (an integer), reports an attribute-invalid error and returns
\* without having created a point.
C12_InvalidKeyAttribAborts ==
    (cpc.cur # "idle" /\ KeyAttribInvalid(cparm, geo)) =>
        /\ cpc.cur = "exit"
        /\ cerr.cur # {}
        /\ Len(out.pts) = 0

\* A cook in the CLASS mode has returned on an input whose 'class' is a
\* string attribute.
C12_Witness ==
    /\ cpc.cur = "exit" /\ cparm.mode = MODE_CLASS
    /\ geo.classType = "string"
    /\ Len(geo.prims) > 0

\* C13: a cook that creates centroids in the GROUP mode with an empty group
\* pattern returns with no output point and no error on the node.
C13_EmptyGroupPatternIsClean ==
    (cpc.cur # "idle" /\ cparm.mode = MODE_GROUP /\ Len(cparm.group) = 0) =>
        /\ cpc.cur = "exit"
        /\ Len(out.pts) = 0
        /\ cerr.cur = {}

\* Such a cook has returned, on an input that has non-empty groups.
C13_Witness ==
    /\ cpc.cur = "exit" /\ cparm.mode = MODE_GROUP /\ Len(cparm.group) = 0
    /\ \E n \in 1 .. Len(geo.groups) :
          ~geo.groups[n].internal /\ geo.groups[n].members # {}

(***************************************************************************)
(* SOP_PrimGroupCentroid: binding to centroids.                            *)
(***************************************************************************)
RSub(a, b) == Rat(a.num * b.den - b.num * a.den, a.den * b.den)
RLe(a, b) == a.num * b.den <= b.num * a.den

\* The quotient in lowest terms; a quotient by zero is left as it is.
RECURSIVE GCD(_, _)
GCD(a, b) == IF b = 0 THEN a ELSE GCD(b, a % b)
RNorm(a) ==
    LET d == GCD(IF a.num < 0 THEN -a.num ELSE a.num, a.den)
    IN IF a.den = 0 \/ d = 0 THEN a ELSE Rat(a.num \div d, a.den \div d)

\* The value of a point attribute at a bound point, and a fixed value.
PointValue(a, ptOff) == [src |-> a, pt |-> ptOff]
Fixed(c) == [src |-> c, pt |-> 0]

\* What a read of the never assigned quaternion 'rot', and a read through a
\* handle bound to no attribute, can give.
UninitRot == {Fixed("identity"), Fixed("garbage")}
UnboundDir == {Fixed("Z"), Fixed("garbage")}

\* buildTransform, the direction of the manual construction: the normal
\* attribute is looked up, then the velocity attribute; when neither is
\* found the handle is bound to no attribute and read, and when one is found
\* the direction is the Z axis.
buildTransform_dir(attrs, ptOff, ub) ==
    LET dir_attrib == IF "N" \in attrs THEN "N"
                      ELSE IF "v" \in attrs THEN "v" ELSE "none"
    IN IF dir_attrib = "none" THEN ub.dir
       ELSE Fixed("Z")

\* The mutant of buildTransform: the orientation is never used.
buildTransformManual(b, pivot, ptOff, ub) ==
    [centroid |-> pivot, pt_pos |-> 10 * ptOff,
     dir |-> buildTransform_dir(b.attrs, ptOff, ub),
     pscale |-> IF "pscale" \in b.attrs THEN PointValue("pscale", ptOff)
                ELSE Fixed("one"),
     scale |-> IF "scale" \in b.attrs THEN PointValue("scale", ptOff)
               ELSE Fixed("ones"),
     up |-> IF "up" \in b.attrs THEN PointValue("up", ptOff)
            ELSE Fixed("zero"),
     rot |-> IF "rot" \in b.attrs THEN PointValue("rot", ptOff) ELSE ub.rot,
     trans |-> IF "trans" \in b.attrs THEN PointValue("trans", ptOff)
               ELSE Fixed("zero"),
     orient |-> Fixed("null")]

\* buildTransform: the arguments of xform.instance and the centroid of the
\* translation that precedes it.  On the orient path 'dir' and 'up' are
\* handed over as they were declared.
buildTransform(b, pivot, ptOff, ub) ==
    LET use_orient == "orient" \in b.attrs
    IN [centroid |-> pivot, pt_pos |-> 10 * ptOff,
        dir |-> IF use_orient THEN Fixed("unset")
                ELSE buildTransform_dir(b.attrs, ptOff, ub),
        pscale |-> IF "pscale" \in b.attrs THEN PointValue("pscale", ptOff)
                   ELSE Fixed("one"),
        scale |-> IF "scale" \in b.attrs THEN PointValue("scale", ptOff)
                  ELSE Fixed("ones"),
        up |-> IF use_orient THEN Fixed("unset")
               ELSE IF "up" \in b.attrs THEN PointValue("up", ptOff)
               ELSE Fixed("zero"),
        rot |-> IF "rot" \in b.attrs THEN PointValue("rot", ptOff)
                ELSE ub.rot,
        trans |-> IF "trans" \in b.attrs THEN PointValue("trans", ptOff)
                  ELSE Fixed("zero"),
        orient |-> IF use_orient THEN PointValue("orient", ptOff)
                   ELSE Fixed("null")]

\* The numbers behind the values along the one axis that is followed: a
\* 'pscale' of 2, a 'scale' of 3, a 'trans' of the point number.
scaleOf(m) ==
    (IF m.pscale.src = "pscale" THEN 2 ELSE 1)
    * (IF m.scale.src = "scale" THEN 3 ELSE 1)
transOf(m) == IF m.trans.src = "trans" THEN m.trans.pt ELSE 0

\* mat = pre_xform * xform applied to a position: the centroid goes to the
\* origin, then the instance scales and moves to the point.
applyMat(x, m) ==
    RNorm(RAdd(RScale(RSub(x, m.centroid), scaleOf(m)),
               Rat(m.pt_pos + transOf(m), 1)))

\* Sum of the positions of the first n points of a sequence in the detail.
RECURSIVE SumPosAt(_, _, _)
SumPosAt(pos, pts, n) ==
    IF n = 0 THEN Rat(0, 1) ELSE RAdd(SumPosAt(pos, pts, n - 1), pos[pts[n]])

\* baryCenter(gdp, pr_range, pos)
baryCenterAt(pos, g, pr_range) ==
    LET pt_range == PointsOfPrims(g, pr_range)
    IN RDivInt(SumPosAt(pos, pt_range, Len(pt_range)), Len(pt_range))

\* boundingBox(gdp, pr_range, pos)
boundingBoxAt(pos, g, pr_range) ==
    LET pt_range == PointsOfPrims(g, pr_range)
        ps == { pos[pt_range[i]] : i \in 1 .. Len(pt_range) }
    IN IF ps = {} THEN Rat(0, 2)
       ELSE RDivInt(RAdd(CHOOSE x \in ps : \A y \in ps : RLe(x, y),
                         CHOOSE x \in ps : \A y \in ps : RLe(y, x)), 2)

\* The loop of centerOfMass(gdp, pr_range, pos).
RECURSIVE comLoopAt(_, _, _, _)
comLoopAt(pos, g, pr_range, n) ==
    IF n = 0 THEN [pos |-> Rat(0, 1), total_area |-> 0]
    ELSE LET acc == comLoopAt(pos, g, pr_range, n - 1)
             prim == g.prims[pr_range[n]]
             vs == SortedSeq(prim.pts)
             bary == RDivInt(SumPosAt(pos, vs, Len(vs)), Len(vs))
         IN [pos |-> RAdd(acc.pos, RScale(bary, prim.area)),
             total_area |-> acc.total_area + prim.area]

\* centerOfMass(gdp, pr_range, pos)
centerOfMassAt(pos, g, pr_range) ==
    LET acc == comLoopAt(pos, g, pr_range, Len(pr_range))
    IN IF acc.total_area # 0 THEN RDivInt(acc.pos, acc.total_area) ELSE acc.pos

\* The centroid of a range of the detail being bound, for the method.
centroidAt(pos, g, method, pr_range) ==
    RNorm(IF method = 1 THEN boundingBoxAt(pos, g, pr_range)
          ELSE IF method = 2 THEN centerOfMassAt(pos, g, pr_range)
          ELSE baryCenterAt(pos, g, pr_range))

\* The name of the attribute that holds the key of the mode on the points.
keyAttribName(mode) ==
    IF mode = MODE_GROUP THEN "group"
    ELSE IF mode = MODE_NAME THEN "name" ELSE "class"

\* gdp->findPrimitiveGroup(str_value): the place of the group in the table,
\* or 0.
findPrimitiveGroup(g, str_value) ==
    IF \E n \in 1 .. Len(g.groups) : g.groups[n].name = str_value
    THEN CHOOSE n \in 1 .. Len(g.groups) : g.groups[n].name = str_value
    ELSE 0

\* The storage type that the handle of the mode reads: class_h is a
\* GA_ROHandleI, str_h a GA_ROHandleS.
keyTypeOf(mode) == IF mode = MODE_CLASS THEN "int" ELSE "string"

\* The storage type of the key attribute on the primitives of the detail.
primKeyType(mode, g) ==
    IF mode = MODE_NAME THEN g.nameType
    ELSE IF mode = MODE_CLASS THEN g.classType
    ELSE "string"

\* str_h.get(*it), class_h.get(*it): the key of the bound point ptOff.  The
\* handle was bound without a check of the type of the attribute: on an
\* attribute of another type the handle is invalid and the read is
\* undefined, ub.key is what it yields.
readKey(mode, b, ptOff, ub) ==
    IF b.keyType = keyTypeOf(mode) THEN b.key[ptOff] ELSE ub.key[ptOff]

\* The primitives that the bound point ptOff resolves to: [skip, range].
\* getRangeByValue on a primitive attribute of another type than the value
\* is not defined by the source: ub.range is what it yields.
boundRange(mode, b, g, ptOff, ub) ==
    IF mode = MODE_GROUP
    THEN LET n == findPrimitiveGroup(g, readKey(mode, b, ptOff, ub))
         IN IF n = 0 \/ g.groups[n].members = {}
            THEN [skip |-> TRUE, range |-> <<>>]
            ELSE [skip |-> FALSE, range |-> SortedSeq(g.groups[n].members)]
    ELSE [skip |-> FALSE,
          range |-> IF primKeyType(mode, g) # keyTypeOf(mode) THEN ub.range
                    ELSE getRangeByValue(IF mode = MODE_NAME THEN g.name
                                         ELSE g.class,
                                         readKey(mode, b, ptOff, ub))]

\* gdp->transform(mat, group): the points that the primitives of the group
\* reference are moved.
transformRange(pos, g, pr_range, m) ==
    [pt \in DOMAIN pos |->
        IF pt \in PartitionPoints(g, pr_range) THEN applyMat(pos[pt], m)
        ELSE pos[pt]]

\* The mutant of bindStep: the centroid is that of the geometry as it came
\* in, whatever the points before have done to it.
bindStepStaleCentroid(p, b, g, refmap, ub, st, ptOff) ==
    LET br == boundRange(p.mode, b, g, ptOff, ub)
        pr_range == br.range
        pos0 == [pt \in DOMAIN st.pos |-> Rat(getPos3(pt), 1)]
        m == buildTransform(b, centroidAt(pos0, g, p.method, pr_range),
                            ptOff, ub)
    IN IF br.skip THEN st
       ELSE [pos |-> transformRange(st.pos, g, pr_range, m),
             xf |-> [pt \in DOMAIN st.xf |->
                       IF pt \in PartitionPoints(g, pr_range)
                       THEN Append(st.xf[pt], ptOff) ELSE st.xf[pt]],
             pval |-> [k \in DOMAIN st.pval |->
                         IF k \in RangeSet(pr_range)
                         THEN [a \in refmap |-> ptOff] ELSE st.pval[k]],
             all_prims |-> st.all_prims \cup RangeSet(pr_range),
             adhoc |-> st.adhoc + (IF p.mode = MODE_GROUP THEN 0 ELSE 1),
             mats |-> Append(st.mats, m)]

\* The body of the loop of bindToCentroids for the bound point ptOff.
bindStep(p, b, g, refmap, ub, st, ptOff) ==
    LET br == boundRange(p.mode, b, g, ptOff, ub)
        pr_range == br.range
        m == buildTransform(b, centroidAt(st.pos, g, p.method, pr_range),
                            ptOff, ub)
    IN IF br.skip THEN st
       ELSE [pos |-> transformRange(st.pos, g, pr_range, m),
             xf |-> [pt \in DOMAIN st.xf |->
                       IF pt \in PartitionPoints(g, pr_range)
                       THEN Append(st.xf[pt], ptOff) ELSE st.xf[pt]],
             pval |-> [k \in DOMAIN st.pval |->
                         IF k \in RangeSet(pr_range)
                         THEN [a \in refmap |-> ptOff] ELSE st.pval[k]],
             all_prims |-> st.all_prims \cup RangeSet(pr_range),
             adhoc |-> st.adhoc + (IF p.mode = MODE_GROUP THEN 0 ELSE 1),
             mats |-> Append(st.mats, m)]

\* The loop of bindToCentroids over the first n points of the second input.
RECURSIVE bindLoop(_, _, _, _, _, _, _)
bindLoop(p, b, g, refmap, ub, st, n) ==
    IF n = 0 THEN st
    ELSE bindStep(p, b, g, refmap, ub,
                  bindLoop(p, b, g, refmap, ub, st, n - 1), n)

\* all_prims->toggleEntries(), gdp->deletePrimitives(*all_prims, true): the
\* primitives that remain.
deleteUnmatched(g, behavior, all_prims) ==
    IF behavior = 0 THEN 1 .. Len(g.prims) ELSE all_prims

\* duplicateSource(0, context): the detail before bindToCentroids.
duplicateInput(g) ==
    [prims |-> 1 .. Len(g.prims), pts |-> Pt, attrs |-> primitiveAttribs(g),
     pos |-> [pt \in Pt |-> Rat(getPos3(pt), 1)],
     xf |-> [pt \in Pt |-> <<>>],
     pval |-> [k \in 1 .. Len(g.prims) |-> [a \in {} |-> 0]],
     adhoc |-> 0, hmap |-> {}]

\* The mutant of bindChecks: the primitive attribute is not looked for.
bindChecksPointsOnly(mode, b, dstAttrs) ==
    IF keyAttribName(mode) \notin b.attrs THEN {keyAttribName(mode)} ELSE {}

\* The checks of bindToCentroids, as the errors they add: the key attribute
\* is looked for on the points and, unless the mode is by groups, on the
\* primitives of the detail.
bindChecks(mode, b, dstAttrs) ==
    IF keyAttribName(mode) \notin b.attrs THEN {keyAttribName(mode)}
    ELSE IF mode # MODE_GROUP /\ keyAttribName(mode) \notin dstAttrs
    THEN {keyAttribName(mode)}
    ELSE {}

\* bindToCentroids: the return code, the errors, the detail, the transforms.
bindToCentroids(p, bp, b, g, ub) ==
    LET gdp0 == duplicateInput(g)
        map == buildRefMap(bp.bind, b.attrs, p.mode, "point", gdp0.attrs)
        gdp1 == [gdp0 EXCEPT !.attrs = @ \cup map, !.hmap = map, !.adhoc = 1]
        errors == bindChecks(p.mode, b, gdp1.attrs)
        st == bindLoop(p, b, g, map, ub,
                       [pos |-> gdp1.pos, xf |-> gdp1.xf, pval |-> gdp1.pval,
                        all_prims |-> {}, adhoc |-> gdp1.adhoc,
                        mats |-> <<>>],
                       Len(b.key))
        left == deleteUnmatched(g, bp.behavior, st.all_prims)
    IN IF errors # {}
       THEN [rc |-> 1, err |-> errors, gdp |-> gdp1, mats |-> <<>>]
       ELSE IF ub.crash
       THEN [rc |-> 2, err |-> {}, gdp |-> gdp1, mats |-> <<>>]
       ELSE [rc |-> 0, err |-> {},
             gdp |-> [gdp1 EXCEPT
                        !.pos = st.pos, !.xf = st.xf, !.pval = st.pval,
                        !.adhoc = st.adhoc, !.prims = left,
                        !.pts = { pt \in Pt :
                                    \/ \E k \in left : pt \in g.prims[k].pts
                                    \/ \A k \in 1 .. Len(g.prims) :
                                          pt \notin g.prims[k].pts }],
             mats |-> st.mats]

(***************************************************************************)
(* SOP_PrimGroupCentroid with two inputs: the state after construction.    *)
(***************************************************************************)
\* The primitive k has the point k - 1 and nothing else.
PointPrims(n) == [k \in 1 .. n |-> [pts |-> {(k - 1) % MaxPt}, area |-> 1]]

\* The keys that the points to bind to can carry in a mode: the names and
\* classes of the primitives and one more, the groups and one more.
BoundKeys(mode) ==
    IF mode = MODE_GROUP THEN {"g1", "g2", "g3", "gx"}
    ELSE IF mode = MODE_NAME THEN {"a", "b", "c"}
    ELSE 0 .. (MaxKey + 1)

\* Sequences of at most MaxBound keys.
BoundKeySeqs(mode) == UNION { [1 .. n -> BoundKeys(mode)] : n \in 0 .. MaxBound }

\* The group table of the first input.
GroupTable(m1, m2) ==
    <<[name |-> "g1", internal |-> FALSE, members |-> m1],
      [name |-> "g2", internal |-> FALSE, members |-> m2],
      [name |-> "g3", internal |-> TRUE, members |-> 1 .. MaxPrim]>>

\* Any keys on the primitives and on the points, which carry an orientation
\* and a rotation; the primitives share points or not.
InitBindKeys ==
    /\ cparm \in [mode : {MODE_GROUP, MODE_NAME, MODE_CLASS}, method : {0},
                  store : {FALSE}, group : {<<>>}, attributes : {<<>>}]
    /\ bparm \in [behavior : 0 .. 1, bind : {<<"Cd">>}]
    /\ \E keys \in BoundKeySeqs(cparm.mode) :
          bpts = [connected |-> TRUE,
                  attrs |-> {"P", "Cd", "orient", "rot",
                             keyAttribName(cparm.mode)},
                  keyType |-> keyTypeOf(cparm.mode), key |-> keys]
    /\ \E shared \in BOOLEAN,
          names \in IF cparm.mode = MODE_NAME THEN [1 .. MaxPrim -> Names]
                    ELSE {CyclicNames(MaxPrim)},
          classes \in IF cparm.mode = MODE_CLASS THEN [1 .. MaxPrim -> Keys]
                      ELSE {CyclicClasses(MaxPrim)},
          m1 \in IF cparm.mode = MODE_GROUP THEN SUBSET (1 .. MaxPrim)
                 ELSE {{1}},
          m2 \in IF cparm.mode = MODE_GROUP THEN {{}, {1}, 1 .. MaxPrim}
                 ELSE {{}} :
          /\ geo = [prims |-> IF shared
                              THEN EdgePrims(MaxPrim, UnitAreas(MaxPrim))
                              ELSE PointPrims(MaxPrim),
                    nameType |-> "string", name |-> names,
                    classType |-> "int", class |-> classes,
                    groups |-> GroupTable(m1, m2), pattrs |-> {}]

\* Any attributes on the two inputs, the key attributes missing or not, and
\* any pattern of attributes to bind.
InitBindAttribs ==
    /\ cparm \in [mode : {MODE_GROUP, MODE_NAME, MODE_CLASS}, method : {0},
                  store : {FALSE}, group : {<<>>}, attributes : {<<>>}]
    /\ bparm \in [behavior : 0 .. 1, bind : {<<>>, <<"*">>, <<"Cd">>}]
    /\ \E as \in SUBSET {"group", "name", "class", "Cd"} :
          bpts = [connected |-> TRUE,
                  attrs |-> {"P", "orient", "rot"} \cup as,
                  keyType |-> IF keyAttribName(cparm.mode) \in as
                              THEN keyTypeOf(cparm.mode) ELSE "none",
                  key |-> IF cparm.mode = MODE_GROUP THEN <<"g1">>
                          ELSE IF cparm.mode = MODE_NAME THEN <<"a">>
                          ELSE <<0>>]
    /\ \E nt \in {"none", "string"}, ct \in {"none", "int"},
          pa \in SUBSET {"Cd", "group"} :
          geo = [prims |-> EdgePrims(MaxPrim, UnitAreas(MaxPrim)),
                 nameType |-> nt, name |-> TypedValues(nt, MaxPrim),
                 classType |-> ct, class |-> TypedValues(ct, MaxPrim),
                 groups |-> GroupTable({1}, {2}), pattrs |-> pa]

\* Any set of the attributes that buildTransform looks for, on two points
\* that match the two names of the primitives.
InitBindXform ==
    /\ cparm \in [mode : {MODE_NAME}, method : 0 .. 2,
                  store : {FALSE}, group : {<<>>}, attributes : {<<>>}]
    /\ bparm = [behavior |-> 0, bind |-> <<>>]
    /\ \E as \in SUBSET {"orient", "N", "v", "up", "trans", "scale",
                         "pscale", "rot"} :
          bpts = [connected |-> TRUE, attrs |-> {"P", "name"} \cup as,
                  keyType |-> "string", key |-> <<"a", "b">>]
    /\ geo = [prims |-> EdgePrims(MaxPrim, UnitAreas(MaxPrim)),
              nameType |-> "string", name |-> CyclicNames(MaxPrim),
              classType |-> "int", class |-> CyclicClasses(MaxPrim),
              groups |-> <<>>, pattrs |-> {}]

\* The state before a cook with two inputs.
BindIdle ==
    /\ cpc = [cur |-> "idle", v3 |-> "parked"]
    /\ cdata = NoData(0, {})
    /\ out = NoOut
    /\ outV3 = NoOut
    /\ cerr = [cur |-> {}, v3 |-> {}]
    /\ bgdp = NoBound
    /\ mats = <<>>
    /\ recook = NoCooks
    /\ CopyParked
    /\ BlastParked

InitBind ==
    /\ InitBindKeys \/ InitBindAttribs \/ InitBindXform
    /\ BindIdle

\* Key attributes 'name' and 'class' that are there on the points and on
\* the primitives, of the type the mode reads or of the other type, on no
\* point, one point or more.
InitBindTypes ==
    /\ cparm \in [mode : {MODE_NAME, MODE_CLASS}, method : {0},
                  store : {FALSE}, group : {<<>>}, attributes : {<<>>}]
    /\ bparm \in [behavior : 0 .. 1, bind : {<<>>, <<"Cd">>}]
    /\ \E n \in 0 .. MaxBound, kt \in {"string", "int"} :
          bpts = [connected |-> TRUE,
                  attrs |-> {"P", "Cd", keyAttribName(cparm.mode)},
                  keyType |-> kt, key |-> TypedValues(kt, n)]
    /\ \E nt \in {"string", "int"}, ct \in {"string", "int"} :
          geo = [prims |-> EdgePrims(MaxPrim, UnitAreas(MaxPrim)),
                 nameType |-> nt, name |-> TypedValues(nt, MaxPrim),
                 classType |-> ct, class |-> TypedValues(ct, MaxPrim),
                 groups |-> <<>>, pattrs |-> {}]
    /\ BindIdle

\* What the undefined reads of a cook yield: the quaternion 'rot' that was
\* never assigned, the direction read through a handle that is not bound,
\* the keys read through a handle bound to an attribute of another type
\* (any key, or the read ends the process), and the range of a value looked
\* for in a primitive attribute of another type.
UndefinedReads(mode, b, g) ==
    LET invalid == b.keyType # keyTypeOf(mode) /\ b.keyType # "none"
        n == Len(b.key)
    IN [rot : UninitRot, dir : UnboundDir,
        key : IF invalid THEN [1 .. n -> BoundKeys(mode)] ELSE {<<>>},
        crash : IF invalid /\ n > 0 THEN BOOLEAN ELSE {FALSE},
        range : IF primKeyType(mode, g) \notin {keyTypeOf(mode), "none"}
                THEN {<<>>, [k \in 1 .. Len(g.prims) |-> k]}
                ELSE {<<>>}]

\* cookMySop with two connected inputs: duplicateSource, bindToCentroids.
PrimGroupCentroid_cookMySop_Bind ==
    /\ cpc.cur = "idle"
    /\ bpts.connected
    /\ \E ub \in UndefinedReads(cparm.mode, bpts, geo) :
       \E r \in {bindToCentroids(cparm, bparm, bpts, geo, ub)} :
             /\ bgdp' = r.gdp
             /\ mats' = r.mats
             /\ cerr' = [cerr EXCEPT !.cur = r.err]
             /\ cpc' = [cpc EXCEPT
                          !.cur = IF r.rc = 0 THEN "done"
                                  ELSE IF r.rc = 1 THEN "exit"
                                  ELSE "crashed"]
             /\ locks' = IF r.rc = 2 THEN lockInputs(locks, "cur")
                         ELSE unlockInputs(lockInputs(locks, "cur"), "cur")
    /\ UNCHANGED <<cparm, geo, cdata, out, outV3, bparm, bpts, recook>>
    /\ UNCHANGED <<copyVars, blast>>

NextBind == PrimGroupCentroid_cookMySop_Bind

SpecBind == InitBind /\ [][NextBind]_vars

SpecBindTypes == InitBindTypes /\ [][NextBind]_vars

(***************************************************************************)
(* SOP_PrimGroupCentroid with two inputs: the properties.                  *)
(***************************************************************************)
\* The primitive k carries a key that a point of the second input carries:
\* it is in the group the point names, or has the value of the point.
Matched(k) ==
    \E i \in 1 .. Len(bpts.key) :
       IF cparm.mode = MODE_GROUP
       THEN \E n \in 1 .. Len(geo.groups) :
               geo.groups[n].name = bpts.key[i] /\ k \in geo.groups[n].members
       ELSE IF cparm.mode = MODE_NAME THEN geo.name[k] = bpts.key[i]
       ELSE geo.class[k] = bpts.key[i]

AllPrims == 1 .. Len(geo.prims)
Unmatched == { k \in AllPrims : ~Matched(k) }

\* No point of the primitive k was moved.
Untransformed(k) ==
    \A pt \in geo.prims[k].pts :
       bgdp.xf[pt] = <<>> /\ bgdp.pos[pt] = Rat(getPos3(pt), 1)

\* C14: after a binding cook that succeeded, with behavior DESTROY the
\* primitives that remain are exactly the matched ones and their number is
\* the total less the unmatched; with behavior KEEP every primitive remains
\* and every unmatched primitive is left untransformed.
C14_UnmatchedDestroyedOrLeftAlone ==
    (cpc.cur = "done" /\ bpts.connected) =>
        /\ bparm.behavior = 1 =>
              /\ bgdp.prims = { k \in AllPrims : Matched(k) }
              /\ Cardinality(bgdp.prims)
                    = Cardinality(AllPrims) - Cardinality(Unmatched)
        /\ bparm.behavior = 0 =>
              /\ bgdp.prims = AllPrims
              /\ \A k \in Unmatched : Untransformed(k)

\* The key attribute is missing on the points or, in the modes by
\* attribute, on the primitives.
BindKeyMissing ==
    \/ keyAttribName(cparm.mode) \notin bpts.attrs
    \/ cparm.mode = MODE_NAME /\ geo.nameType = "none"
    \/ cparm.mode = MODE_CLASS /\ geo.classType = "none"

\* C15: a binding cook on inputs where the key attribute is missing on the
\* points, or on the primitives in the NAME and CLASS modes, reports an
\* attribute-invalid error and returns before any transform: no primitive is
\* transformed, no value of a point is copied to a primitive and no
\* primitive is deleted, whatever the behavior.
C15_BindKeyMissingAborts ==
    (cpc.cur # "idle" /\ bpts.connected /\ BindKeyMissing) =>
        /\ cpc.cur = "exit"
        /\ cerr.cur # {}
        /\ mats = <<>>
        /\ \A k \in AllPrims : Untransformed(k) /\ DOMAIN bgdp.pval[k] = {}
        /\ bgdp.prims = AllPrims

\* A cook with behavior DESTROY has returned: the points carry the key, the
\* primitives do not, and a pattern asks for an attribute to be bound.
C15_Witness ==
    /\ cpc.cur = "exit" /\ bpts.connected /\ bparm.behavior = 1
    /\ cparm.mode = MODE_NAME
    /\ "name" \in bpts.attrs /\ geo.nameType = "none"
    /\ "Cd" \in bgdp.hmap

\* The attributes of the points that the pattern of the binding selects and
\* that no rule excludes.
BindSelected ==
    { a \in bpts.attrs :
        /\ Len(bparm.bind) > 0
        /\ matchPattern(a, bparm.bind)
        /\ a # "P"
        /\ a # keyAttribName(cparm.mode) }

\* C16: after buildRefMap in a binding cook, every attribute of the points
\* that the pattern selects and that is not excluded is an attribute of the
\* detail as well and an entry of the map, whether the detail had it before
\* or not.
C16_RefMapHoldsEverySelected ==
    (cpc.cur # "idle" /\ bpts.connected) =>
        \A a \in BindSelected : a \in bgdp.attrs /\ a \in bgdp.hmap

\* C17: the map of a binding cook never holds the key attribute of the mode
\* ('group', 'name' or 'class'), nor the position P.
C17_RefMapExcludesKeyAndP ==
    (cpc.cur # "idle" /\ bpts.connected) =>
        /\ keyAttribName(cparm.mode) \notin bgdp.hmap
        /\ "P" \notin bgdp.hmap

(***************************************************************************)
(* SOP_PrimGroupCentroid: averaged attributes and the instance transform.  *)
(***************************************************************************)
\* The sum of a numeric attribute over a set of primitives.
RECURSIVE SetSumValue(_, _, _)
SetSumValue(g, a, S) ==
    IF S = {} THEN 0
    ELSE LET k == CHOOSE y \in S : TRUE
         IN primValue(g, a, k) + SetSumValue(g, a, S \ {k})

\* The numeric primitive attributes that the pattern of a cook selects and
\* that the map of the cook holds.
MappedNumeric(p, g) ==
    NumericAttribs(g, { a \in primitiveAttribs(g) :
                          /\ Len(p.attributes) > 0
                          /\ matchPattern(a, p.attributes)
                          /\ a # keyAttribName(p.mode) })

\* C18: after a cook that creates centroids, the value of every mapped
\* attribute on the point of a partition is the sum of the attribute over
\* the primitives of the partition, each taken once, divided by their
\* number, and it is what the cook would have written with any other
\* centroid method.
C18_MappedValueIsTheMean ==
    (cpc.cur = "done" /\ ~bpts.connected) =>
        \A i \in 1 .. Len(cdata.range_array) :
           LET S == RangeSet(cdata.range_array[i])
           IN /\ DOMAIN out.pts[i].attr = MappedNumeric(cparm, geo)
              /\ \A a \in MappedNumeric(cparm, geo) :
                    REq(out.pts[i].attr[a],
                        Rat(SetSumValue(geo, a, S), Cardinality(S)))
              /\ \A method \in 0 .. 2 :
                    buildCentroids([cparm EXCEPT !.method = method],
                                   geo).gdp.pts[i].attr = out.pts[i].attr

\* A cook with the pattern "*" is done: a partition of two primitives has a
\* value for 'Cd' and for 'class'.
C18_Witness ==
    /\ cpc.cur = "done" /\ ~bpts.connected /\ cparm.mode = MODE_NAME
    /\ cparm.attributes = <<"*">>
    /\ \E i \in 1 .. Len(cdata.range_array) :
          /\ Len(cdata.range_array[i]) = 2
          /\ {"Cd", "class"} \subseteq DOMAIN out.pts[i].attr
          /\ out.pts[i].attr["Cd"].den = 2

\* C19: every transform that buildTransform builds for points with a
\* 4-float 'orient' attribute is built from the orientation of the point,
\* without the direction and the up vector of the manual construction; the
\* manual construction is used exactly when there is no 'orient'.
C19_OrientTakesPrecedence ==
    \A j \in 1 .. Len(mats) :
       /\ "orient" \in bpts.attrs =>
             /\ mats[j].orient.src = "orient"
             /\ mats[j].dir = Fixed("unset")
             /\ mats[j].up = Fixed("unset")
       /\ "orient" \notin bpts.attrs =>
             /\ mats[j].orient = Fixed("null")
             /\ mats[j].dir # Fixed("unset")
             /\ mats[j].up # Fixed("unset")

\* A cook has built two transforms for points that have 'orient', a normal
\* and an up vector.
C19_Witness ==
    /\ cpc.cur = "done" /\ Len(mats) = 2
    /\ {"orient", "N", "up"} \subseteq bpts.attrs
    /\ mats[2].orient = PointValue("orient", 2)

\* C20: without 'orient', the direction that buildTransform gives to the
\* instance is the normal of the point when the points have a normal, else
\* the velocity of the point when they have a velocity, else the Z axis.
C20_DirectionIsNormalVelocityOrZ ==
    \A j \in 1 .. Len(mats) :
       "orient" \notin bpts.attrs =>
          mats[j].dir = IF "N" \in bpts.attrs THEN PointValue("N", j)
                        ELSE IF "v" \in bpts.attrs THEN PointValue("v", j)
                        ELSE Fixed("Z")

\* C21: in every transform that buildTransform builds, an optional attribute
\* that the points do not have takes its default, on the orient path and on
\* the manual path: 'trans' is zero, 'scale' is (1,1,1), 'pscale' is 1,
\* 'rot' is the identity rotation and 'up' is the zero vector.
C21_AbsentAttribsTakeDefaults ==
    \A j \in 1 .. Len(mats) :
       /\ "trans" \notin bpts.attrs => mats[j].trans = Fixed("zero")
       /\ "scale" \notin bpts.attrs => mats[j].scale = Fixed("ones")
       /\ "pscale" \notin bpts.attrs => mats[j].pscale = Fixed("one")
       /\ "rot" \notin bpts.attrs => mats[j].rot = Fixed("identity")
       /\ "up" \notin bpts.attrs => mats[j].up = Fixed("zero")

\* C22: over any sequence of CREATE cooks, aborted ones included, the output
\* of a cook depends on the input and the parameters of that cook alone:
\* it is what a first cook makes of them, nothing of the cook before is
\* left, and a cook on unchanged input and parameters repeats the output.
C22_CookDependsOnItsInputAlone ==
    (cpc.cur \in {"done", "exit"} /\ ~bpts.connected) =>
       /\ out = buildCentroids(cparm, geo).gdp
       /\ (recook.n > 1 /\ recook.was.p = cparm /\ recook.was.g = geo) =>
             out = recook.was.out

\* A cook that made points follows a cook that was aborted after it had
\* created the identifier attribute.
C22_Witness ==
    /\ cpc.cur = "done"
    /\ recook.n = 2
    /\ recook.was.out.pts = <<>>
    /\ "name" \in recook.was.out.attrs
    /\ Len(out.pts) > 0
    /\ ~cparm.store
    /\ "name" \notin out.attrs

\* C23: a key attribute that is present with the wrong type ('name' that is
\* not a string, 'class' that is not an integer), on the bound points or on
\* the primitives being bound, makes the BIND cook report a hard error and
\* abort, and no transform is applied.
C23_BindMistypedKeyAborts ==
    (/\ cpc.cur # "idle"
     /\ bpts.connected
     /\ \/ bpts.keyType \notin {keyTypeOf(cparm.mode), "none"}
        \/ primKeyType(cparm.mode, geo) \notin {keyTypeOf(cparm.mode), "none"}) =>
       /\ cpc.cur = "exit"
       /\ cerr.cur # {}
       /\ mats = <<>>

\* C24: a degenerate partition, one of zero total area under CENTER OF MASS
\* or a group without primitives under BARYCENTER, raises no error and does
\* not stop the other partitions: the cook succeeds with one point for each
\* partition (the groups that are kept, or the distinct values of the key
\* attribute that are set), the other points where they belong; the point
\* of a partition without area is left at the origin and that of an empty
\* group has no defined position.
C24_DegeneratePartitionIsNoError ==
    (/\ cpc.cur # "idle"
     /\ ~bpts.connected
     /\ ~KeyAttribInvalid(cparm, geo)
     /\ ~(cparm.mode = MODE_GROUP /\ Len(cparm.group) = 0)) =>
       /\ cpc.cur = "done"
       /\ cerr.cur = {}
       /\ Len(out.pts) =
             IF cparm.mode = MODE_GROUP THEN Len(KeptGroups(cparm, geo))
             ELSE IF cparm.mode = MODE_NAME
             THEN Cardinality({ geo.name[k] : k \in DOMAIN geo.name } \ {""})
             ELSE Cardinality({ geo.class[k] : k \in DOMAIN geo.class })
       /\ Len(cdata.range_array) = Len(out.pts)
       /\ \A i \in 1 .. Len(out.pts) :
             LET S == RangeSet(cdata.range_array[i])
                 U == PartitionPoints(geo, cdata.range_array[i])
                 m == SetMass(geo, S)
                 pos == out.pts[i].pos
             IN /\ cparm.method = 0 =>
                     IF U = {} THEN pos.den = 0
                     ELSE /\ pos.den # 0
                          /\ REq(pos, Rat(SetSumPos(U), Cardinality(U)))
                /\ cparm.method = 2 =>
                     /\ pos.den # 0
                     /\ IF m.total_area = 0 THEN REq(pos, Rat(0, 1))
                        ELSE REq(pos, RDivInt(m.pos, m.total_area))

\* A cook by groups with the BARYCENTER method is done: the first group is
\* empty, a later one is not, and both have their point.
C24_Witness ==
    /\ cpc.cur = "done" /\ cerr.cur = {}
    /\ cparm.mode = MODE_GROUP /\ cparm.method = 0
    /\ Len(out.pts) = 2
    /\ cdata.range_array[1] = <<>>
    /\ cdata.range_array[2] # <<>>
    /\ out.pts[1].pos.den = 0
    /\ out.pts[2].pos.den # 0

\* The primitives that carry the key of the bound point i.
ResolvesTo(i) ==
    IF cparm.mode = MODE_GROUP
    THEN UNION { geo.groups[n].members :
                   n \in { x \in 1 .. Len(geo.groups) :
                             geo.groups[x].name = bpts.key[i] } }
    ELSE IF cparm.mode = MODE_NAME
    THEN { k \in 1 .. Len(geo.prims) : geo.name[k] = bpts.key[i] }
    ELSE { k \in 1 .. Len(geo.prims) : geo.class[k] = bpts.key[i] }

\* The bound points that the loop does not pass over, in point order.
BoundProcessed ==
    SortedSeq({ i \in 1 .. Len(bpts.key) :
                  cparm.mode = MODE_GROUP => ResolvesTo(i) # {} })

\* Where the point pt lies after the first j transforms of the cook.
RECURSIVE PosAfter(_, _)
PosAfter(pt, j) ==
    IF j = 0 THEN Rat(getPos3(pt), 1)
    ELSE IF \E k \in ResolvesTo(BoundProcessed[j]) : pt \in geo.prims[k].pts
    THEN applyMat(PosAfter(pt, j - 1), mats[j])
    ELSE PosAfter(pt, j - 1)

\* C25: in a BIND cook every bound point that is not passed over is
\* processed once, in point order, also when several points resolve to the
\* same key: the centroid of each is that of its primitives as the
\* transforms before have left them, the transforms compose on the points
\* of the primitives, and the copied attribute values that remain on a
\* primitive are those of the last point that resolved to it.
C25_SameKeyPointsComposeInOrder ==
    (cpc.cur = "done" /\ bpts.connected) =>
       /\ Len(mats) = Len(BoundProcessed)
       /\ \A j \in 1 .. Len(mats) :
             /\ mats[j].pt_pos = 10 * BoundProcessed[j]
             /\ REq(mats[j].centroid,
                    centroidAt([pt \in Pt |-> PosAfter(pt, j - 1)], geo,
                               cparm.method,
                               SortedSeq(ResolvesTo(BoundProcessed[j]))))
       /\ \A pt \in Pt : REq(bgdp.pos[pt], PosAfter(pt, Len(mats)))
       /\ \A k \in 1 .. Len(geo.prims) :
             LET from == { i \in 1 .. Len(bpts.key) : k \in ResolvesTo(i) }
             IN \A a \in bgdp.hmap :
                   from # {} =>
                      /\ a \in DOMAIN bgdp.pval[k]
                      /\ bgdp.pval[k][a] = CHOOSE i \in from :
                                              \A x \in from : x <= i

\* Two bound points carry the same key: its primitives were transformed
\* twice, about two different centroids, and hold the value of the second.
C25_Witness ==
    /\ cpc.cur = "done" /\ bpts.connected
    /\ Len(bpts.key) = 2 /\ bpts.key[1] = bpts.key[2]
    /\ Len(mats) = 2
    /\ ~REq(mats[1].centroid, mats[2].centroid)
    /\ \E k \in ResolvesTo(2) :
          /\ "Cd" \in DOMAIN bgdp.pval[k]
          /\ bgdp.pval[k]["Cd"] = 2
          /\ \A pt \in geo.prims[k].pts : bgdp.xf[pt] = <<1, 2>>

(***************************************************************************)
(* SOP_IdBlast.                                                            *)
(***************************************************************************)
\* The mutant of indexPoints: the first point that carries an id keeps it.
indexPointsKeepFirst(ids, n) ==
    [id \in { ids[s] : s \in 1 .. n } |->
        (CHOOSE s \in 1 .. n : ids[s] = id /\ \A x \in 1 .. n :
                                                 ids[x] = id => s <= x) - 1]

\* The scan of the points of the detail, in offset order, with
\* id_map[id] = pt: the first n points, point s at offset s - 1.
RECURSIVE indexPoints(_, _)
indexPoints(ids, n) ==
    IF n = 0 THEN [k \in {} |-> 0]
    ELSE LET m == indexPoints(ids, n - 1)
         IN [k \in DOMAIN m \cup {ids[n]} |->
                IF k = ids[n] THEN n - 1 ELSE m[k]]

\* addOffsetToGroup(num, sec, data): the group once the number is looked up.
addOffsetToGroup(grp, index, num) ==
    IF num \in DOMAIN index THEN grp \cup {index[num]} ELSE grp

\* id_range.traversePattern(-1, &pair, addOffsetToGroup) for the token
\* <<lo, hi>>: the callback runs for the numbers from lo up to n.
RECURSIVE traversePattern(_, _, _, _)
traversePattern(grp, index, tok, n) ==
    IF n < tok[1] THEN grp
    ELSE addOffsetToGroup(traversePattern(grp, index, tok, n - 1), index, n)

\* The loop over the first n tokens of the pattern.
RECURSIVE tokenLoop(_, _, _)
tokenLoop(index, tokens, n) ==
    IF n = 0 THEN {}
    ELSE traversePattern(tokenLoop(index, tokens, n - 1), index, tokens[n],
                         tokens[n][2])

\* The tokens of the 'ids' parameter: ranges lo-hi of the ids and one more.
BlastTokens ==
    { t \in (0 .. (MaxId + 1)) \X (0 .. (MaxId + 1)) : t[1] <= t[2] }

\* Any pattern of at most MaxSrc tokens, an input with or without the 'id'
\* attribute, any ids on at most NumOff - 1 points.
InitBlast ==
    /\ \E tokens \in UNION { [1 .. n -> BlastTokens] : n \in 0 .. MaxSrc },
          has \in BOOLEAN,
          ids \in UNION { [1 .. n -> Ids] : n \in 0 .. (NumOff - 1) } :
          blast = [ids |-> tokens, hasId |-> has, in |-> ids, pc |-> "idle",
                   gdp |-> {}, id_map |-> [k \in {} |-> 0], group |-> {},
                   err |-> {}]
    /\ CopyParked
    /\ CentParked

\* cookMySop with an empty 'ids' pattern: the input is duplicated, no more.
IdBlast_cookMySop_NoPattern ==
    /\ blast.pc = "idle"
    /\ Len(blast.ids) = 0
    /\ blast' = [blast EXCEPT !.gdp = 0 .. (Len(blast.in) - 1), !.pc = "exit"]
    /\ locks' = unlockInputs(lockInputs(locks, "blast"), "blast")
    /\ UNCHANGED <<copyVars, centVars>>

\* cookMySop on an input without 'id' attribute.
IdBlast_cookMySop_NoId ==
    /\ blast.pc = "idle"
    /\ Len(blast.ids) > 0
    /\ ~blast.hasId
    /\ blast' = [blast EXCEPT !.gdp = 0 .. (Len(blast.in) - 1),
                              !.err = {"Input 1 has no 'id' attribute."},
                              !.pc = "exit"]
    /\ locks' = unlockInputs(lockInputs(locks, "blast"), "blast")
    /\ UNCHANGED <<copyVars, centVars>>

\* cookMySop: the points are indexed by id, the ids of the pattern are
\* looked up and their points grouped, the points of the group destroyed
\* (gdp->destroyPointOffsets).
IdBlast_cookMySop ==
    /\ blast.pc = "idle"
    /\ Len(blast.ids) > 0
    /\ blast.hasId
    /\ LET index == indexPoints(blast.in, Len(blast.in))
           grp == tokenLoop(index, blast.ids, Len(blast.ids))
       IN blast' = [blast EXCEPT
                      !.id_map = index, !.group = grp,
                      !.gdp = (0 .. (Len(blast.in) - 1)) \ grp,
                      !.pc = "done"]
    /\ locks' = unlockInputs(lockInputs(locks, "blast"), "blast")
    /\ UNCHANGED <<copyVars, centVars>>

NextBlast ==
    \/ IdBlast_cookMySop_NoPattern
    \/ IdBlast_cookMySop_NoId
    \/ IdBlast_cookMySop

SpecBlast == InitBlast /\ [][NextBlast]_vars

\* The ids that the pattern lists.
ListedIds ==
    UNION { blast.ids[i][1] .. blast.ids[i][2] : i \in 1 .. Len(blast.ids) }

\* C30: SOP_IdBlast deletes exactly the points that the identifier index
\* holds for the listed ids: of the points that carry a listed id the last
\* one in scan order goes, an id that is not listed or that no point carries
\* deletes nothing, and with an empty 'ids' pattern the output is the input
\* unchanged and no error is raised.
C30_BlastDeletesLastPointOfListedIds ==
    LET all == 0 .. (Len(blast.in) - 1)
        last == { o \in all : \A x \in all : x > o =>
                                 blast.in[x + 1] # blast.in[o + 1] }
    IN /\ blast.pc = "done" =>
             /\ blast.err = {}
             /\ blast.gdp = all \ { o \in last : blast.in[o + 1] \in ListedIds }
       /\ (blast.pc # "idle" /\ Len(blast.ids) = 0) =>
             /\ blast.pc = "exit"
             /\ blast.gdp = all
             /\ blast.err = {}

\* Two points carry a listed id and the first of them is still there, a
\* point with an id that is not listed is there too, and a listed id is on
\* no point.
C30_Witness ==
    /\ blast.pc = "done"
    /\ Len(blast.in) = 3
    /\ blast.in[1] = blast.in[2] /\ blast.in[1] \in ListedIds
    /\ blast.in[3] \notin ListedIds
    /\ blast.gdp = {0, 2}
    /\ \E x \in ListedIds : \A s \in 1 .. 3 : blast.in[s] # x

(***************************************************************************)
(* The locks on the inputs, over the cooks of all the nodes.               *)
(***************************************************************************)
\* lockInputs(context) >= UT_ERROR_ABORT in SOP_IdAttribCopy: return error().
cookMySop_LockFails ==
    /\ pc = "idle"
    /\ pc' = "failed"
    /\ UNCHANGED <<parm, in0, src, cuts, gdp, hmap, id_map, matches, group,
                   task, writes, err>>
    /\ UNCHANGED <<centVars, blast, locks>>

\* cookInputGroups(context) fails on a group that cannot be parsed: the
\* copy is passed over, the inputs are unlocked.
cookMySop_BadGroup ==
    /\ pc = "idle"
    /\ locks' = unlockInputs(lockInputs(locks, "copy"), "copy")
    /\ gdp' = duplicateSource(in0)
    /\ err' = err \cup {"SOP_ERR_BADGROUP"}
    /\ pc' = "exit"
    /\ UNCHANGED <<centVars, blast>>
    /\ UNCHANGED <<parm, in0, src, cuts, hmap, id_map, matches, group, task,
                   writes>>

\* lockInputs(context) >= UT_ERROR_ABORT in SOP_PrimGroupCentroid.
PrimGroupCentroid_LockFails ==
    /\ cpc.cur = "idle"
    /\ cpc' = [cpc EXCEPT !.cur = "failed"]
    /\ UNCHANGED <<cparm, geo, cdata, out, outV3, cerr, bparm, bpts, bgdp,
                   mats, recook>>
    /\ UNCHANGED <<copyVars, blast, locks>>

\* lockInputs(context) >= UT_ERROR_ABORT in version 3.0.
PrimGroupCentroidV3_LockFails ==
    /\ cpc.v3 = "idle"
    /\ cpc' = [cpc EXCEPT !.v3 = "failed"]
    /\ UNCHANGED <<cparm, geo, cdata, out, outV3, cerr, bparm, bpts, bgdp,
                   mats, recook>>
    /\ UNCHANGED <<copyVars, blast, locks>>

\* lockInputs(context) >= UT_ERROR_ABORT in SOP_IdBlast.
IdBlast_LockFails ==
    /\ blast.pc = "idle"
    /\ blast' = [blast EXCEPT !.pc = "failed"]
    /\ UNCHANGED <<copyVars, centVars, locks>>

\* One node of the four is in the network, with inputs that take its cook
\* down each of its paths.
InitLocks ==
    \/ InitCopyOther /\ CopyIdle
    \/ /\ \E i \in RecookInputs : cparm = i.p /\ geo = i.g
       /\ cpc = [cur |-> "idle", v3 |-> IF CooksV3 THEN "idle" ELSE "parked"]
       /\ cdata = NoData(0, {})
       /\ out = NoOut
       /\ outV3 = NoOut
       /\ cerr = [cur |-> {}, v3 |-> {}]
       /\ recook = NoCooks
       /\ BindParked
       /\ CopyParked
       /\ BlastParked
    \/ InitBindTypes
    \/ InitBlast

NextLocks ==
    \/ cookMySop_LockFails
    \/ cookMySop_BadGroup
    \/ cookMySop_NoId1
    \/ cookMySop_NoId2
    \/ cookMySop_NoPattern
    \/ cookMySop_Dispatch
    \/ \E t \in Pages : Copier_Point(t)
    \/ \E t \in Pages : Copier_SetBit(t)
    \/ cookMySop_Finish
    \/ PrimGroupCentroid_LockFails
    \/ PrimGroupCentroid_cookMySop
    \/ PrimGroupCentroid_cookMySop_Bind
    \/ PrimGroupCentroidV3_LockFails
    \/ PrimGroupCentroidV3_cookMySop
    \/ IdBlast_LockFails
    \/ IdBlast_cookMySop_NoPattern
    \/ IdBlast_cookMySop_NoId
    \/ IdBlast_cookMySop

SpecLocks == InitLocks /\ [][NextLocks]_vars

\* C29: on every path through cookMySop of SOP_PrimGroupCentroid (as it is
\* and in version 3.0), SOP_IdAttribCopy and SOP_IdBlast, the inputs that
\* were locked are unlocked exactly once before the cook returns, and a cook
\* whose lockInputs fails returns without unlocking.
C29_LockedInputsAreUnlockedOnce ==
    \A n \in Nodes :
       LET at == IF n = "copy" THEN pc
                 ELSE IF n = "cur" THEN cpc.cur
                 ELSE IF n = "v3" THEN cpc.v3
                 ELSE blast.pc
       IN /\ locks[n].unlocked <= locks[n].locked
          /\ at \in {"done", "exit"} =>
                locks[n].locked = 1 /\ locks[n].unlocked = 1
          /\ at = "failed" => locks[n].locked = 0 /\ locks[n].unlocked = 0
          /\ at \in {"idle", "parked"} => locks[n] = NoLocks[n]
          /\ at = "copying" => locks[n].locked = 1 /\ locks[n].unlocked = 0

\* A cook of SOP_IdAttribCopy has returned early with an error, the inputs
\* locked and unlocked once.
C29_Witness ==
    /\ pc = "exit" /\ err # {}
    /\ locks["copy"] = [locked |-> 1, unlocked |-> 1]

\* C26: in the reference map of SOP_IdAttribCopy 'id' is never an entry,
\* and P is an entry exactly when the 'Accept P' toggle is on and the name
\* P matches the pattern.
C26_RefMapWithoutIdAndPByToggle ==
    pc \in {"copying", "done"} =>
       /\ "id" \notin hmap
       /\ "P" \in hmap <=> (parm.copyp /\ matchPattern("P", parm.attributes))

\* The map was built from a second input with 'id', with 'Accept P' on and
\* a pattern that names P: P is in the map.
C26_Witness ==
    /\ pc = "done"
    /\ "id" \in src.attrs
    /\ parm.copyp /\ parm.attributes = <<"P", "Cd">>
    /\ "P" \in hmap

\* C27: when 'id' is missing on the first or on the second input of
\* SOP_IdAttribCopy the cook reports an error and no part of the copy is
\* done: no attribute is created on the output, no value changes, no group
\* is created, the output is the duplicated first input.
C27_MissingIdLeavesTheDuplicate ==
    (pc # "idle" /\ ("id" \notin in0.attrs \/ "id" \notin src.attrs)) =>
       /\ pc = "exit"
       /\ err # {}
       /\ gdp = duplicateSource(in0)
       /\ gdp.attrs = in0.attrs
       /\ hmap = {}
       /\ ~group.exists
       /\ matches = NoBits
       /\ writes = {}

\* The second input has no 'id', and an attribute that the pattern selects
\* and the first input lacks; a group was asked for.
C27_Witness ==
    /\ pc = "exit"
    /\ "id" \in in0.attrs /\ "id" \notin src.attrs
    /\ parm.attributes = <<"*">> /\ parm.creategroup
    /\ "Cd" \in src.attrs /\ "Cd" \notin in0.attrs
    /\ "Cd" \notin gdp.attrs

\* C28: in buildCentroids and in bindToCentroids every check of the key
\* attribute that ends in a hard error comes before the first change of the
\* output detail: after a cook that such a check aborted the detail has no
\* attribute and no group that the routine creates, it is as it was when
\* the routine was entered.
C28_KeyChecksPrecedeEveryMutation ==
    (cpc.cur = "exit" /\ cerr.cur # {}) =>
       IF bpts.connected THEN bgdp = duplicateInput(geo) ELSE out = NoOut

====
